---- MODULE Spec2Model ----
(***************************************************************************)
(* SubmitFlow: the job coordinator (JobExecutor.execute_job), the attempt  *)
(* runner (JobExecutor._execute_attempt) and the operator endpoints of     *)
(* app/api/routes/jobs.py, over one job of the durable store.              *)
(*                                                                         *)
(* Every run is one thread executing execute_job_sync with its own         *)
(* SQLAlchemy session.  A run's position is pc[r]; one action is one       *)
(* stretch of code between two statements that touch the store, so that    *)
(* other runs and the operator interleave at every store access.           *)
(***************************************************************************)
EXTENDS Integers, Sequences, FiniteSets, TLC

\* ------------------------------------------------------------------ bounds
MaxRuns == 2              \* Spec: execute triggers, each run by its own thread
ConcurrentAttempts == 1   \* Spec: directories (hence attempts) of the job
NumAttempts == 2          \* SpecSerial, SpecScenario: directories of the job
ShortContinue == 1        \* Spec, SpecSerial: steps of the job that may be CONTINUE
MaxContinue == 2          \* SpecScenario: steps of the job that may be CONTINUE
MaxActed == 2             \* SpecAttempt: steps per execution whose actions are executed
MaxCalls == 11            \* SpecRate: resolver calls of the browser
MaxClock == 120           \* SpecRate: the clock is not moved past this by waiting callers
MaxItems == 2             \* SpecQuery: keys of a map, items of a list
MaxBatch == 2             \* SpecActions: actions of a batch
MaxRequest == 2           \* SpecCreate: directory ids of a request
MaxSessionCalls == 5    \* SpecSession: calls made on the browser session
MaxJobs == 2            \* SpecDelete: jobs created
MaxLogs == 1            \* SpecDelete: step numbers of the rows added

\* ------------------------------------------------------- program constants
max_iterations_per_attempt == 15

Runs == 1..MaxRuns

JobStatus == {"NOT_STARTED", "IN_PROGRESS", "PAUSED", "COMPLETED", "FAILED"}
AttemptStatus == {"NOT_STARTED", "IN_PROGRESS", "SUBMITTED", "PENDING_APPROVAL", "FAILED"}

\* What the loop reads from one model call: llm_response.get("status", "FAILED")
\* ("OTHER" is any string that is none of the three), and whether the
\* normalized query and the normalized action list are non-empty.
DecisionStatus == {"CONTINUE", "DONE", "FAILED", "OTHER"}
Decisions == [status : DecisionStatus, agentql_query : BOOLEAN, actions : BOOLEAN]

None == "None"
NoDecision == [status |-> "None", agentql_query |-> FALSE, actions |-> FALSE]

\* error_message values: f"Failed after {step_number} steps" and str(e)
FailedAfter(n) == <<"Failed after steps", n>>
ExcText(e) == <<"exception", e>>

\* AgentActionLog(step_number=..., success=True), error column NULL
NewActionLog(n) == [step_number |-> n, success |-> TRUE, error |-> None]

VARIABLES
    job,            \* the submission_jobs row
    attempt,        \* submission_attempts rows of the job, by attempt id
    action_logs,    \* agent_action_logs rows of each attempt, in insertion order
    pc,             \* position of each run
    job_view,       \* the job attributes loaded in the run's session, or None when expired
    attempts,       \* the attempts the run fetched (line 128), in order
    idx,            \* index in attempts of the attempt being processed
    attempt_view,   \* the attempt status loaded in the run's session
    step_number,    \* _execute_attempt local
    status,         \* _execute_attempt local
    history,        \* _execute_attempt local
    llm_response,   \* _execute_attempt local: the decision of the current step
    action_log,     \* _execute_attempt local: index of the current step's row
    success,        \* execute_job local: what _execute_attempt returned
    exc,            \* the exception in flight in the run, or None
    resolver_calls, \* page.query_elements calls made through the run's browser
    browser,        \* what the run's BrowserService holds open
    clock,          \* time.time(), in whole seconds
    agentql_call_times, \* BrowserService._agentql_call_times of the run's browser
    query_times,    \* the times at which page.query_elements was called
    http_error,     \* the command an endpoint last refused with HTTP 400
    completed_logged, \* the "Job ... completed" records logged at line 160
    arg,            \* the argument of the function under test
    result          \* <<what the function under test returned>>, <<>> before the call

vars == <<job, attempt, action_logs, pc, job_view, attempts, idx, attempt_view,
          step_number, status, history, llm_response, action_log, success, exc,
          resolver_calls, browser, clock, agentql_call_times, query_times,
          http_error, completed_logged, arg, result>>

store == <<job, attempt, action_logs>>
locals == <<step_number, status, history, llm_response, action_log>>
limiter == <<clock, agentql_call_times, query_times>>
harness == <<http_error, completed_logged, arg, result>>

AttemptIds == DOMAIN attempt
CurrentAttempt(r) == attempts[r][idx[r]]

\* create_job: the job NOT_STARTED with zero counters and one NOT_STARTED
\* attempt per requested directory.
NewJob(n) ==
    [status |-> "NOT_STARTED", total_directories |-> n,
     completed_count |-> 0, failed_count |-> 0,
     started_at |-> FALSE, completed_at |-> FALSE]

NewAttempt(d) ==
    [directory_id |-> d, status |-> "NOT_STARTED", started_at |-> FALSE,
     completed_at |-> FALSE, error_message |-> None]

\* no run started, no browser, no call made
InitRuns ==
    /\ pc = [r \in Runs |-> "idle"]
    /\ job_view = [r \in Runs |-> None]
    /\ attempts = [r \in Runs |-> <<>>]
    /\ idx = [r \in Runs |-> 0]
    /\ attempt_view = [r \in Runs |-> None]
    /\ step_number = [r \in Runs |-> 0]
    /\ status = [r \in Runs |-> None]
    /\ history = [r \in Runs |-> <<>>]
    /\ llm_response = [r \in Runs |-> NoDecision]
    /\ action_log = [r \in Runs |-> 0]
    /\ success = [r \in Runs |-> FALSE]
    /\ exc = [r \in Runs |-> None]
    /\ resolver_calls = [r \in Runs |-> 0]
    /\ browser = [r \in Runs |-> {}]
    /\ clock = 0
    /\ agentql_call_times = [r \in Runs |-> <<>>]
    /\ query_times = [r \in Runs |-> <<>>]
    /\ http_error = None
    /\ completed_logged = 0

\* the store after create_job for the directories 1..n, and the runs not
\* started
InitStore(n) ==
    /\ job = NewJob(n)
    /\ attempt = [a \in 1..n |-> NewAttempt(a)]
    /\ action_logs = [a \in 1..n |-> <<>>]
    /\ InitRuns

InitWith(n) ==
    /\ InitStore(n)
    /\ arg = None
    /\ result = <<>>

Init == InitWith(ConcurrentAttempts)
InitSerial == InitWith(NumAttempts)
InitAttempt == InitWith(1)

\* ------------------------------------------------------ operator endpoints
\* POST /jobs/{id}/start
start_job ==
    /\ job.status \in {"NOT_STARTED", "PAUSED"}
    /\ job' = [job EXCEPT !.status = "IN_PROGRESS", !.started_at = TRUE]
    /\ UNCHANGED <<attempt, action_logs, pc, job_view, attempts, idx, attempt_view,
                   locals, success, exc, resolver_calls>>
    /\ UNCHANGED <<browser, limiter, harness>>

\* pause_job without the status test of line 96
pause_job_Unguarded ==
    /\ job' = [job EXCEPT !.status = "PAUSED"]
    /\ UNCHANGED <<attempt, action_logs, pc, job_view, attempts, idx, attempt_view,
                   locals, success, exc, resolver_calls>>
    /\ UNCHANGED <<browser, limiter, harness>>

\* POST /jobs/{id}/pause
pause_job ==
    /\ job.status = "IN_PROGRESS"
    /\ job' = [job EXCEPT !.status = "PAUSED"]
    /\ UNCHANGED <<attempt, action_logs, pc, job_view, attempts, idx, attempt_view,
                   locals, success, exc, resolver_calls>>
    /\ UNCHANGED <<browser, limiter, harness>>

\* POST /jobs/{id}/resume
resume_job ==
    /\ job.status = "PAUSED"
    /\ job' = [job EXCEPT !.status = "IN_PROGRESS"]
    /\ UNCHANGED <<attempt, action_logs, pc, job_view, attempts, idx, attempt_view,
                   locals, success, exc, resolver_calls>>
    /\ UNCHANGED <<browser, limiter, harness>>

\* POST /jobs/{id}/stop
stop_job ==
    /\ job.status \notin {"COMPLETED", "FAILED"}
    /\ job' = [job EXCEPT !.status = "FAILED", !.completed_at = TRUE]
    /\ UNCHANGED <<attempt, action_logs, pc, job_view, attempts, idx, attempt_view,
                   locals, success, exc, resolver_calls>>
    /\ UNCHANGED <<browser, limiter, harness>>

\* POST /jobs/{id}/execute: starts a thread running execute_job_sync, with a
\* new session, executor and browser (r is a thread that is not running)
execute_job_endpoint(r) ==
    /\ job.status \in {"NOT_STARTED", "PAUSED"}
    /\ pc[r] \in {"idle", "done"}
    /\ \A q \in Runs : q < r => pc[q] \notin {"idle", "done"}
    /\ pc' = [pc EXCEPT ![r] = "load_job"]
    /\ attempts' = [attempts EXCEPT ![r] = <<>>]
    /\ idx' = [idx EXCEPT ![r] = 0]
    /\ exc' = [exc EXCEPT ![r] = None]
    /\ resolver_calls' = [resolver_calls EXCEPT ![r] = 0]
    /\ agentql_call_times' = [agentql_call_times EXCEPT ![r] = <<>>]
    /\ query_times' = [query_times EXCEPT ![r] = <<>>]
    /\ UNCHANGED <<store, job_view, attempt_view, locals, success>>
    /\ UNCHANGED <<browser, clock, harness>>

\* the statuses in which each endpoint goes past its status test (jobs.py
\* lines 79, 96, 112, 128 and 203)
Commands == {"start", "pause", "resume", "stop", "execute"}

Accepts(c) ==
    CASE c = "start" -> {"NOT_STARTED", "PAUSED"}
      [] c = "pause" -> {"IN_PROGRESS"}
      [] c = "resume" -> {"PAUSED"}
      [] c = "stop" -> JobStatus \ {"COMPLETED", "FAILED"}
      [] c = "execute" -> {"NOT_STARTED", "PAUSED"}

\* an endpoint raising HTTPException(status_code=400): nothing is written and
\* no thread is started
Rejected(c) ==
    /\ job.status \notin Accepts(c)
    /\ http_error' = c
    /\ UNCHANGED <<store, pc, job_view, attempts, idx, attempt_view, locals,
                   success, exc, resolver_calls, browser, limiter, completed_logged,
                   arg, result>>

\* ------------------------------------------------- JobExecutor.execute_job
\* lines 82-95: load the job in the run's session and check its status
LoadJob(r) ==
    /\ pc[r] = "load_job"
    /\ IF job.status \in {"NOT_STARTED", "IN_PROGRESS", "PAUSED"}
       THEN /\ job_view' = [job_view EXCEPT ![r] = job]
            /\ pc' = [pc EXCEPT ![r] = "mark_job"]
       ELSE /\ job_view' = [job_view EXCEPT ![r] = None]
            /\ pc' = [pc EXCEPT ![r] = "done"]
    /\ UNCHANGED <<store, attempts, idx, attempt_view, locals, success, exc,
                   resolver_calls>>
    /\ UNCHANGED <<browser, limiter, harness>>

\* lines 107-110: job.status = IN_PROGRESS, started_at if unset, commit.
\* The unit of work writes only the columns whose value differs from the
\* value loaded at line 82; the commit expires the session's objects.
MarkJobInProgress(r) ==
    /\ pc[r] = "mark_job"
    /\ job' = [job EXCEPT
                 !.status = IF job_view[r].status # "IN_PROGRESS"
                            THEN "IN_PROGRESS" ELSE @,
                 !.started_at = IF job_view[r].started_at THEN @ ELSE TRUE]
    /\ job_view' = [job_view EXCEPT ![r] = None]
    /\ pc' = [pc EXCEPT ![r] = "start_browser"]
    /\ UNCHANGED <<attempt, action_logs, attempts, idx, attempt_view, locals,
                   success, exc, resolver_calls>>
    /\ UNCHANGED <<browser, limiter, harness>>

\* BrowserService.start, lines 41-109: the driver process (line 44), the
\* persistent context (line 77) and the page (line 94)
Started == {"playwright", "context", "page"}

\* What start leaves open when it raises: lines 49 and 55 raise with the
\* driver running; the handler of lines 84-92 stops the driver before it
\* raises again; lines 94-108 raise with the driver and the context open.
StartFailures == {{"playwright"}, {}, {"playwright", "context"}}

\* BrowserService.stop, lines 111-120
Stopped == {}

\* StartBrowser with the run going on to its attempts after a failed start
StartBrowser_DispatchesAnyway(r) ==
    /\ pc[r] = "start_browser"
    /\ \/ /\ browser' = [browser EXCEPT ![r] = Started]
          /\ UNCHANGED job
       \/ \E left \in StartFailures :
             /\ browser' = [browser EXCEPT ![r] = left]
             /\ job' = [job EXCEPT !.status = "FAILED", !.completed_at = TRUE]
    /\ pc' = [pc EXCEPT ![r] = "fetch"]
    /\ UNCHANGED <<attempt, action_logs, job_view, attempts, idx, attempt_view,
                   locals, success, exc, resolver_calls>>
    /\ UNCHANGED <<limiter, harness>>

\* lines 116-124: browser.start(); on failure the job is marked FAILED and
\* execute_job returns, before the try whose finally stops the browser
StartBrowser(r) ==
    /\ pc[r] = "start_browser"
    /\ \/ /\ browser' = [browser EXCEPT ![r] = Started]
          /\ pc' = [pc EXCEPT ![r] = "fetch"]
          /\ UNCHANGED job
       \/ \E left \in StartFailures :
             /\ browser' = [browser EXCEPT ![r] = left]
             /\ job' = [job EXCEPT !.status = "FAILED", !.completed_at = TRUE]
             /\ pc' = [pc EXCEPT ![r] = "done"]
    /\ UNCHANGED <<attempt, action_logs, job_view, attempts, idx, attempt_view,
                   locals, success, exc, resolver_calls>>
    /\ UNCHANGED <<limiter, harness>>

\* the ids 1..n in order, as a sequence
IdSeq(n) == [i \in 1..n |-> i]

\* IsPending with FAILED attempts fetched again
IsPending_AlsoFailed(a) ==
    attempt[a].status \in {"NOT_STARTED", "IN_PROGRESS", "FAILED"}

IsPending(a) == attempt[a].status \in {"NOT_STARTED", "IN_PROGRESS"}

\* lines 128-131: the attempts of the job that are NOT_STARTED or IN_PROGRESS
PendingAttempts == SelectSeq(IdSeq(Cardinality(AttemptIds)), IsPending)

FetchAttempts(r) ==
    /\ pc[r] = "fetch"
    /\ attempts' = [attempts EXCEPT ![r] = PendingAttempts]
    /\ idx' = [idx EXCEPT ![r] = 1]
    /\ attempt_view' = [attempt_view EXCEPT ![r] =
                          IF PendingAttempts = <<>> THEN None
                          ELSE attempt[Head(PendingAttempts)].status]
    /\ pc' = [pc EXCEPT ![r] = "check"]
    /\ UNCHANGED <<store, job_view, locals, success, exc, resolver_calls>>
    /\ UNCHANGED <<browser, limiter, harness>>

\* CheckJob with the PAUSED test of line 136 left out
CheckJob_NoPauseTest(r) ==
    /\ pc[r] = "check"
    /\ pc' = [pc EXCEPT ![r] =
                IF idx[r] > Len(attempts[r]) THEN "final"
                ELSE IF job.status = "FAILED" THEN "final"
                ELSE "attempt"]
    /\ UNCHANGED <<store, job_view, attempts, idx, attempt_view, locals, success,
                   exc, resolver_calls>>
    /\ UNCHANGED <<browser, limiter, harness>>

\* lines 133-141: the for statement and the refresh of the job before each
\* attempt; PAUSED or FAILED breaks out of the loop.  The refreshed status
\* is tested at once and every later read of the job follows a commit, which
\* expires it, so the refreshed attributes are not kept in job_view.
CheckJob(r) ==
    /\ pc[r] = "check"
    /\ pc' = [pc EXCEPT ![r] =
                IF idx[r] > Len(attempts[r]) THEN "final"
                ELSE IF job.status = "PAUSED" THEN "final"
                ELSE IF job.status = "FAILED" THEN "final"
                ELSE "attempt"]
    /\ UNCHANGED <<store, job_view, attempts, idx, attempt_view, locals, success,
                   exc, resolver_calls>>
    /\ UNCHANGED <<browser, limiter, harness>>

\* lines 147-150: job.completed_count += 1 or job.failed_count += 1.  The
\* commits of the attempt expired the job, so its attributes are read again
\* from the store here; the new value is written by the commit of line 151.
LoadCounts(r) ==
    /\ pc[r] = "count"
    /\ job_view' = [job_view EXCEPT ![r] =
                      IF success[r]
                      THEN [job EXCEPT !.completed_count = @ + 1]
                      ELSE [job EXCEPT !.failed_count = @ + 1]]
    /\ pc' = [pc EXCEPT ![r] = "commit_count"]
    /\ UNCHANGED <<store, attempts, idx, attempt_view, locals, success, exc,
                   resolver_calls>>
    /\ UNCHANGED <<browser, limiter, harness>>

\* CommitCounts with the for statement passing over the next attempt
CommitCounts_SkipsNext(r) ==
    /\ pc[r] = "commit_count"
    /\ job' = IF success[r]
              THEN [job EXCEPT !.completed_count = job_view[r].completed_count]
              ELSE [job EXCEPT !.failed_count = job_view[r].failed_count]
    /\ job_view' = [job_view EXCEPT ![r] = None]
    /\ idx' = [idx EXCEPT ![r] = @ + 2]
    /\ pc' = [pc EXCEPT ![r] = "check"]
    /\ UNCHANGED <<attempt, action_logs, attempts, attempt_view, locals, success,
                   exc, resolver_calls>>
    /\ UNCHANGED <<browser, limiter, harness>>

\* line 151: commit, then the next iteration of the for statement
CommitCounts(r) ==
    /\ pc[r] = "commit_count"
    /\ job' = IF success[r]
              THEN [job EXCEPT !.completed_count = job_view[r].completed_count]
              ELSE [job EXCEPT !.failed_count = job_view[r].failed_count]
    /\ job_view' = [job_view EXCEPT ![r] = None]
    /\ idx' = [idx EXCEPT ![r] = @ + 1]
    /\ pc' = [pc EXCEPT ![r] = "check"]
    /\ UNCHANGED <<attempt, action_logs, attempts, attempt_view, locals, success,
                   exc, resolver_calls>>
    /\ UNCHANGED <<browser, limiter, harness>>

\* lines 154-156 and 162: refresh the job and decide whether it is complete;
\* when it is not, execute_job returns and its finally stops the browser
CheckComplete(r) ==
    /\ pc[r] = "final"
    /\ IF /\ job.status = "IN_PROGRESS"
          /\ job.completed_count + job.failed_count >= job.total_directories
       THEN /\ pc' = [pc EXCEPT ![r] = "complete"]
            /\ UNCHANGED browser
       ELSE /\ pc' = [pc EXCEPT ![r] = "done"]
            /\ browser' = [browser EXCEPT ![r] = Stopped]
    /\ UNCHANGED <<store, job_view, attempts, idx, attempt_view, locals, success, exc,
                   resolver_calls>>
    /\ UNCHANGED <<limiter, harness>>

\* lines 157-162 and 171-173: job.status = COMPLETED, completed_at, commit,
\* the log record, return, and the finally stops the browser
MarkJobCompleted(r) ==
    /\ pc[r] = "complete"
    /\ job' = [job EXCEPT !.status = "COMPLETED", !.completed_at = TRUE]
    /\ job_view' = [job_view EXCEPT ![r] = None]
    /\ completed_logged' = completed_logged + 1
    /\ browser' = [browser EXCEPT ![r] = Stopped]
    /\ pc' = [pc EXCEPT ![r] = "done"]
    /\ UNCHANGED <<attempt, action_logs, attempts, idx, attempt_view, locals,
                   success, exc, resolver_calls>>
    /\ UNCHANGED <<limiter, http_error, arg, result>>

\* lines 164-173: an exception that escaped the dispatch loop; the finally
\* stops the browser
JobExcept(r) ==
    /\ pc[r] = "job_except"
    /\ job' = [job EXCEPT !.status = "FAILED", !.completed_at = TRUE]
    /\ job_view' = [job_view EXCEPT ![r] = None]
    /\ browser' = [browser EXCEPT ![r] = Stopped]
    /\ pc' = [pc EXCEPT ![r] = "done"]
    /\ UNCHANGED <<attempt, action_logs, attempts, idx, attempt_view, locals,
                   success, exc, resolver_calls>>
    /\ UNCHANGED <<limiter, harness>>

\* ------------------------------------------- JobExecutor._execute_attempt
\* lines 187-190: the attempt's directory is looked up through
\* attempt.directory_id.  The attempt object still holds what line 128 loaded
\* when this is the first attempt of the run; after any commit it is expired
\* and reading the attribute loads the row again.
BeginAttempt(r) ==
    /\ pc[r] = "attempt"
    /\ attempt_view' = [attempt_view EXCEPT ![r] =
                          IF idx[r] = 1 THEN @ ELSE attempt[CurrentAttempt(r)].status]
    /\ pc' = [pc EXCEPT ![r] = "mark_attempt"]
    /\ UNCHANGED <<store, job_view, attempts, idx, locals, success, exc,
                   resolver_calls>>
    /\ UNCHANGED <<browser, limiter, harness>>

\* lines 198-200: attempt.status = IN_PROGRESS, started_at, commit (the status
\* column is written only when it differs from the loaded value)
MarkAttemptInProgress(r) ==
    /\ pc[r] = "mark_attempt"
    /\ attempt' = [attempt EXCEPT ![CurrentAttempt(r)] =
                     [@ EXCEPT !.status = IF attempt_view[r] # "IN_PROGRESS"
                                          THEN "IN_PROGRESS" ELSE @,
                               !.started_at = TRUE]]
    /\ attempt_view' = [attempt_view EXCEPT ![r] = None]
    /\ pc' = [pc EXCEPT ![r] = "navigate"]
    /\ UNCHANGED <<job, action_logs, job_view, attempts, idx, locals, success, exc,
                   resolver_calls>>
    /\ UNCHANGED <<browser, limiter, harness>>

\* lines 203-208: browser.navigate(url), outside the try of the loop: a
\* page.goto failure leaves _execute_attempt; then the locals of the loop
Navigate(r) ==
    /\ pc[r] = "navigate"
    /\ \/ /\ pc' = [pc EXCEPT ![r] = "loop"]
          /\ history' = [history EXCEPT ![r] = <<>>]
          /\ step_number' = [step_number EXCEPT ![r] = 0]
          /\ status' = [status EXCEPT ![r] = "CONTINUE"]
          /\ UNCHANGED exc
       \/ /\ pc' = [pc EXCEPT ![r] = "job_except"]
          /\ exc' = [exc EXCEPT ![r] = "navigate"]
          /\ UNCHANGED <<history, step_number, status>>
    /\ UNCHANGED <<store, job_view, attempts, idx, attempt_view, llm_response,
                   action_log, success, resolver_calls>>
    /\ UNCHANGED <<browser, limiter, harness>>

\* LoopCondition with the ceiling off by one
LoopCondition_OffByOne(r) ==
    status[r] = "CONTINUE" /\ step_number[r] <= max_iterations_per_attempt

\* line 211
LoopCondition(r) ==
    status[r] = "CONTINUE" /\ step_number[r] < max_iterations_per_attempt

\* Raise with no try around the loop: the exception leaves _execute_attempt
Raise_Uncaught(r, e) ==
    /\ pc' = [pc EXCEPT ![r] = "job_except"]
    /\ exc' = [exc EXCEPT ![r] = e]

\* an exception raised inside the try of line 210
Raise(r, e) ==
    /\ pc' = [pc EXCEPT ![r] = "attempt_except"]
    /\ exc' = [exc EXCEPT ![r] = e]

\* Observe without lines 235-246: the step's row is not added
Observe_RowNotAdded(r, D, E) ==
    /\ pc[r] = "loop"
    /\ LoopCondition(r)
    /\ step_number' = [step_number EXCEPT ![r] = @ + 1]
    /\ \/ /\ \E e \in E : Raise(r, e)
          /\ UNCHANGED <<llm_response, status>>
       \/ \E d \in D :
             /\ llm_response' = [llm_response EXCEPT ![r] = d]
             /\ status' = [status EXCEPT ![r] = d.status]
             /\ pc' = [pc EXCEPT ![r] = "branch"]
             /\ UNCHANGED exc
    /\ UNCHANGED <<store, job_view, attempts, idx, attempt_view, history,
                   action_log, success, resolver_calls>>
    /\ UNCHANGED <<browser, limiter, harness>>

\* lines 211-248: one observation.  The screenshot may raise; a response that
\* is not an object makes llm_response.get raise; otherwise the step's row is
\* added and committed (the commit may raise, and then the row is not stored)
\* and status is read from the decision.  D is the set of decisions the model
\* may give at this step and E the exceptions that may be raised in it.
Observe(r, D, E) ==
    /\ pc[r] = "loop"
    /\ LoopCondition(r)
    /\ step_number' = [step_number EXCEPT ![r] = @ + 1]
    /\ \/ /\ \E e \in E : Raise(r, e)
          /\ UNCHANGED <<action_logs, llm_response, action_log, status>>
       \/ \E d \in D :
             /\ llm_response' = [llm_response EXCEPT ![r] = d]
             /\ action_logs' = [action_logs EXCEPT ![CurrentAttempt(r)] =
                                  Append(@, NewActionLog(step_number[r] + 1))]
             /\ action_log' = [action_log EXCEPT ![r] =
                                 Len(action_logs[CurrentAttempt(r)]) + 1]
             /\ status' = [status EXCEPT ![r] = d.status]
             /\ pc' = [pc EXCEPT ![r] = "branch"]
             /\ UNCHANGED exc
    /\ UNCHANGED <<job, attempt, job_view, attempts, idx, attempt_view, history,
                   success, resolver_calls>>
    /\ UNCHANGED <<browser, limiter, harness>>

\* HistoryEntry with "success" whatever execute_actions returned
HistoryEntry_AlwaysSuccess(n, outcome) == [step |-> n, result |-> "success"]

\* lines 260-272: the entry appended to history
HistoryEntry(n, outcome) == [step |-> n, result |-> outcome]

\* ------------------------------------------ BrowserService, the rate limiter
AGENTQL_RATE_LIMIT == 10
AGENTQL_RATE_WINDOW == 60

\* lines 158-159: drop the calls older than the window
RECURSIVE DropOld(_, _)
DropOld(times, now) ==
    IF times # <<>> /\ now - Head(times) > AGENTQL_RATE_WINDOW
    THEN DropOld(Tail(times), now)
    ELSE times

\* wait_time with the sleep of lines 162-166 left out
wait_time_NoSleep(times, now) == 0

\* lines 162-166: the seconds slept (none unless the limit is reached and
\* wait_time is positive)
wait_time(times, now) ==
    IF /\ Len(times) >= AGENTQL_RATE_LIMIT
       /\ AGENTQL_RATE_WINDOW - (now - Head(times)) + 1 > 0
    THEN AGENTQL_RATE_WINDOW - (now - Head(times)) + 1
    ELSE 0

\* deque(maxlen=AGENTQL_RATE_LIMIT).append: a full deque drops its oldest item
DequeAppend(times, t) ==
    IF Len(times) >= AGENTQL_RATE_LIMIT
    THEN Append(Tail(times), t)
    ELSE Append(times, t)

\* lines 153-169: _wait_for_rate_limit; the sleep moves the clock
wait_for_rate_limit(r) ==
    LET kept == DropOld(agentql_call_times[r], clock)
    IN  /\ clock' = clock + wait_time(kept, clock)
        /\ agentql_call_times' = [agentql_call_times EXCEPT ![r] =
                                     DequeAppend(kept, clock')]

\* lines 186-192: the wait, then page.query_elements
query_elements(r) ==
    /\ wait_for_rate_limit(r)
    /\ resolver_calls' = [resolver_calls EXCEPT ![r] = @ + 1]
    /\ query_times' = [query_times EXCEPT ![r] = Append(@, clock')]

\* what execute_actions returns: True (line 260), False when an upload
\* action names a file that does not exist (line 244), False when the
\* resolver call gives None or raises (lines 196, 264), False on any other
\* failure (lines 249, 264)
ExecuteResults == {"ok", "upload_not_found", "resolver_error", "action_error"}

\* AfterExecute with a failure of the resolver call raised into the loop
AfterExecute_ResolverRaises(res) ==
    IF res = "ok" THEN "loop"
    ELSE IF res = "resolver_error" THEN "attempt_except"
    ELSE res

\* lines 259-274: where the loop goes with what execute_actions returned:
\* after True to the while condition, after False to the write of the error
AfterExecute(res) == IF res = "ok" THEN "loop" ELSE res

\* Continue without the test of line 252: execute_actions runs at every
\* CONTINUE step
Continue_AlwaysExecutes(r) ==
    /\ pc[r] = "branch"
    /\ status[r] = "CONTINUE"
    /\ \E res \in ExecuteResults :
          /\ query_elements(r)
          /\ action_logs' = [action_logs EXCEPT
                               ![CurrentAttempt(r)][action_log[r]].success =
                                   (res = "ok")]
          /\ history' = [history EXCEPT ![r] =
                           Append(@, HistoryEntry(step_number[r],
                                     IF res = "ok" THEN "success" ELSE "failed"))]
          /\ pc' = [pc EXCEPT ![r] = AfterExecute(res)]
    /\ UNCHANGED <<job, attempt, job_view, attempts, idx, attempt_view,
                   step_number, status, llm_response, action_log, success, exc>>
    /\ UNCHANGED <<browser, harness>>

\* lines 250-277: CONTINUE.  With a query and actions, execute_actions runs
\* (it never raises), the row's success flag is committed and the history
\* extended.
Continue(r) ==
    /\ pc[r] = "branch"
    /\ status[r] = "CONTINUE"
    /\ IF llm_response[r].agentql_query /\ llm_response[r].actions
       THEN \E res \in ExecuteResults :
              /\ query_elements(r)
              /\ action_logs' = [action_logs EXCEPT
                                   ![CurrentAttempt(r)][action_log[r]].success =
                                       (res = "ok")]
              /\ history' = [history EXCEPT ![r] =
                               Append(@, HistoryEntry(step_number[r],
                                         IF res = "ok" THEN "success" ELSE "failed"))]
              /\ pc' = [pc EXCEPT ![r] = AfterExecute(res)]
       ELSE /\ pc' = [pc EXCEPT ![r] = "loop"]
            /\ UNCHANGED <<resolver_calls, action_logs, history, limiter>>
    /\ UNCHANGED <<job, attempt, job_view, attempts, idx, attempt_view,
                   step_number, status, llm_response, action_log, success, exc>>
    /\ UNCHANGED <<browser, harness>>

\* ActionError writing the error on the first row of the attempt
ActionError_FirstRow(r) ==
    /\ pc[r] \in ExecuteResults \ {"ok"}
    /\ action_logs' = [action_logs EXCEPT
                         ![CurrentAttempt(r)][1].error = "Action execution failed"]
    /\ pc' = [pc EXCEPT ![r] = "loop"]
    /\ UNCHANGED <<job, attempt, job_view, attempts, idx, attempt_view, locals,
                   success, exc, resolver_calls>>
    /\ UNCHANGED <<browser, limiter, harness>>

\* lines 273-277: action_log.error = "Action execution failed", commit
ActionError(r) ==
    /\ pc[r] \in ExecuteResults \ {"ok"}
    /\ action_logs' = [action_logs EXCEPT
                         ![CurrentAttempt(r)][action_log[r]].error =
                             "Action execution failed"]
    /\ pc' = [pc EXCEPT ![r] = "loop"]
    /\ UNCHANGED <<job, attempt, job_view, attempts, idx, attempt_view, locals,
                   success, exc, resolver_calls>>
    /\ UNCHANGED <<browser, limiter, harness>>

\* what _execute_attempt writes when it returns; its locals end with it
Conclude(r, st, msg) ==
    /\ attempt' = [attempt EXCEPT ![CurrentAttempt(r)] =
                     [@ EXCEPT !.status = st, !.completed_at = TRUE,
                               !.error_message = IF msg = None THEN @ ELSE msg]]
    /\ step_number' = [step_number EXCEPT ![r] = 0]
    /\ status' = [status EXCEPT ![r] = None]
    /\ history' = [history EXCEPT ![r] = <<>>]
    /\ llm_response' = [llm_response EXCEPT ![r] = NoDecision]
    /\ action_log' = [action_log EXCEPT ![r] = 0]

\* Done with the decision's actions executed before the return
Done_ExecutesActions(r) ==
    /\ pc[r] = "branch"
    /\ status[r] = "DONE"
    /\ Conclude(r, "SUBMITTED", None)
    /\ success' = [success EXCEPT ![r] = TRUE]
    /\ pc' = [pc EXCEPT ![r] = "count"]
    /\ resolver_calls' = [resolver_calls EXCEPT ![r] =
                            IF llm_response[r].agentql_query /\ llm_response[r].actions
                            THEN @ + 1 ELSE @]
    /\ UNCHANGED <<job, action_logs, job_view, attempts, idx, attempt_view, exc>>
    /\ UNCHANGED <<browser, limiter, harness>>

\* lines 279-284: DONE
Done(r) ==
    /\ pc[r] = "branch"
    /\ status[r] = "DONE"
    /\ Conclude(r, "SUBMITTED", None)
    /\ success' = [success EXCEPT ![r] = TRUE]
    /\ pc' = [pc EXCEPT ![r] = "count"]
    /\ UNCHANGED <<job, action_logs, job_view, attempts, idx, attempt_view, exc,
                   resolver_calls>>
    /\ UNCHANGED <<browser, limiter, harness>>

\* Failed with the loop going on to the next step
Failed_LoopGoesOn(r) ==
    /\ pc[r] = "branch"
    /\ status[r] = "FAILED"
    /\ action_logs' = [action_logs EXCEPT
                         ![CurrentAttempt(r)][action_log[r]] =
                             [@ EXCEPT !.success = FALSE, !.error = "thought"]]
    /\ status' = [status EXCEPT ![r] = "CONTINUE"]
    /\ pc' = [pc EXCEPT ![r] = "loop"]
    /\ UNCHANGED <<job, attempt, job_view, attempts, idx, attempt_view,
                   step_number, history, llm_response, action_log, success, exc,
                   resolver_calls>>
    /\ UNCHANGED <<browser, limiter, harness>>

\* lines 286-290: FAILED: the reason goes on the step's row
Failed(r) ==
    /\ pc[r] = "branch"
    /\ status[r] = "FAILED"
    /\ action_logs' = [action_logs EXCEPT
                         ![CurrentAttempt(r)][action_log[r]] =
                             [@ EXCEPT !.success = FALSE, !.error = "thought"]]
    /\ pc' = [pc EXCEPT ![r] = "loop"]
    /\ UNCHANGED <<job, attempt, job_view, attempts, idx, attempt_view, locals,
                   success, exc, resolver_calls>>
    /\ UNCHANGED <<browser, limiter, harness>>

\* line 248 read a status that is none of CONTINUE, DONE, FAILED: no branch
Unknown(r) ==
    /\ pc[r] = "branch"
    /\ status[r] = "OTHER"
    /\ pc' = [pc EXCEPT ![r] = "loop"]
    /\ UNCHANGED <<store, job_view, attempts, idx, attempt_view, locals, success,
                   exc, resolver_calls>>
    /\ UNCHANGED <<browser, limiter, harness>>

\* lines 292-300: the loop ended without DONE
LoopExit(r) ==
    /\ pc[r] = "loop"
    /\ ~LoopCondition(r)
    /\ Conclude(r, "FAILED", FailedAfter(step_number[r]))
    /\ success' = [success EXCEPT ![r] = FALSE]
    /\ pc' = [pc EXCEPT ![r] = "count"]
    /\ UNCHANGED <<job, action_logs, job_view, attempts, idx, attempt_view, exc,
                   resolver_calls>>
    /\ UNCHANGED <<browser, limiter, harness>>

\* lines 302-308: the attempt boundary
AttemptExcept(r) ==
    /\ pc[r] = "attempt_except"
    /\ Conclude(r, "FAILED", ExcText(exc[r]))
    /\ success' = [success EXCEPT ![r] = FALSE]
    /\ exc' = [exc EXCEPT ![r] = None]
    /\ pc' = [pc EXCEPT ![r] = "count"]
    /\ UNCHANGED <<job, action_logs, job_view, attempts, idx, attempt_view,
                   resolver_calls>>
    /\ UNCHANGED <<browser, limiter, harness>>

\* ------------------------------------------------------------ specifications
Exceptions == {"screenshot", "payload", "store"}

Acted(d) == d.status = "CONTINUE" /\ d.agentql_query /\ d.actions

\* the rows recorded for the attempts 1..n
RECURSIVE Recorded(_)
Recorded(n) == IF n = 0 THEN 0 ELSE Len(action_logs[n]) + Recorded(n - 1)

\* the decisions of a model that gives CONTINUE only while fewer than n steps
\* of the job are on record
ContinueAtMost(n) ==
    {d \in Decisions :
        d.status = "CONTINUE" => Recorded(Cardinality(AttemptIds)) < n}

\* SpecAttempt: any decision; at most MaxActed steps of an execution have
\* their actions executed
ActedDecisions(r) ==
    {d \in Decisions : Acted(d) => Len(history[r]) < MaxActed}

\* the steps of a run other than the observation
RunStep(r) ==
    \/ LoadJob(r) \/ MarkJobInProgress(r) \/ StartBrowser(r) \/ FetchAttempts(r)
    \/ CheckJob(r) \/ LoadCounts(r) \/ CommitCounts(r) \/ CheckComplete(r)
    \/ MarkJobCompleted(r) \/ JobExcept(r)
    \/ BeginAttempt(r) \/ MarkAttemptInProgress(r) \/ Navigate(r)
    \/ Continue(r) \/ ActionError(r) \/ Done(r) \/ Failed(r)
    \/ Unknown(r) \/ LoopExit(r) \/ AttemptExcept(r)

Operator == start_job \/ pause_job \/ resume_job \/ stop_job

\* Spec: runs and operator commands interleave freely; a thread runs once
Next ==
    \/ Operator
    \/ \E r \in Runs : pc[r] = "idle" /\ execute_job_endpoint(r)
    \/ \E r \in Runs : RunStep(r)
    \/ \E r \in Runs : Observe(r, ContinueAtMost(ShortContinue), Exceptions)

Spec == Init /\ [][Next]_vars

\* SpecSerial: the execute trigger is used only while no run of the job is
\* active, so one thread at a time runs the job, any number of times
NextSerial ==
    \/ Operator
    \/ execute_job_endpoint(1)
    \/ RunStep(1)
    \/ Observe(1, ContinueAtMost(ShortContinue), Exceptions)

SpecSerial == InitSerial /\ [][NextSerial]_vars

\* SpecOperator: SpecSerial over a job with one directory, with the commands
\* that the endpoints refuse
NextOperator ==
    \/ NextSerial
    \/ \E c \in Commands : Rejected(c)

SpecOperator == InitAttempt /\ [][NextOperator]_vars

\* SpecRate: one BrowserService whose execute_actions is called again and
\* again, with time passing between the calls
TickSteps == {29, 30, 31}

Tick(d) ==
    /\ clock + d <= MaxClock
    /\ clock' = clock + d
    /\ UNCHANGED <<store, pc, job_view, attempts, idx, attempt_view, locals,
                   success, exc, resolver_calls, browser, agentql_call_times,
                   query_times, harness>>

\* execute_actions up to its resolver call (lines 186-192)
ResolverCall(r) ==
    /\ resolver_calls[r] < MaxCalls
    /\ query_elements(r)
    /\ UNCHANGED <<store, pc, job_view, attempts, idx, attempt_view, locals,
                   success, exc, browser, harness>>

NextRate ==
    \/ \E d \in TickSteps : Tick(d)
    \/ ResolverCall(1)

SpecRate == InitAttempt /\ [][NextRate]_vars

\* ------------------------------------------------- LLMClient.analyze_page
\* What chat.completions.create gives: it raises, its message has no content,
\* or its content is a text: a body that is or is not JSON, bare or inside a
\* markdown fence.  A JSON body is an object (with or without each field the
\* loop reads) or a list, string, number or null.
Fences == {"none", "json", "plain"}
StatusFields == {"absent", "CONTINUE", "DONE", "FAILED", "OTHER"}
ThoughtFields == {"absent", "model"}

JsonValue(t, st, th, q, a) ==
    [type |-> t, status |-> st, thought |-> th, agentql_query |-> q, actions |-> a]

JsonObjects ==
    {JsonValue("object", st, th, q, a) :
        st \in StatusFields, th \in ThoughtFields, q \in BOOLEAN, a \in BOOLEAN}

NonObjects ==
    {JsonValue(t, "absent", "absent", FALSE, FALSE) :
        t \in {"list", "string", "number", "null"}}

NotJson == JsonValue("not_json", "absent", "absent", FALSE, FALSE)

ModelOutcomes ==
    [kind : {"raise", "no_content"}, fence : {"none"}, body : {NotJson}]
        \cup [kind : {"text"}, fence : Fences,
              body : JsonObjects \cup NonObjects \cup {NotJson}]

\* the dict of lines 82-88 and 102-108
FailedDecision(thought) == JsonValue("object", "FAILED", thought, TRUE, TRUE)

\* lines 90-108: the text inside the fence, if any, goes to json.loads, whose
\* value is returned whatever its type; JSONDecodeError gives the FAILED dict
parse_response(o) ==
    IF o.body = NotJson
    THEN FailedDecision("Could not parse LLM response as JSON")
    ELSE o.body

\* lines 54-88: any exception of the call, or of the parse other than
\* JSONDecodeError (content None), gives the FAILED dict
analyze_page(o) ==
    IF o.kind \in {"raise", "no_content"}
    THEN FailedDecision("LLM call failed")
    ELSE parse_response(o)

\* job_executor.py lines 226-248: llm_response.get("status", "FAILED"); get
\* is not an attribute of a list, string, number or None
StatusRead(d) ==
    IF d.type # "object" THEN "AttributeError"
    ELSE IF d.status = "absent" THEN "FAILED"
    ELSE d.status

\* SpecDecision: analyze_page applied to every outcome of the model call
InitDecision ==
    /\ InitStore(1)
    /\ arg \in ModelOutcomes
    /\ result = <<>>

AnalyzePage ==
    /\ result = <<>>
    /\ result' = <<analyze_page(arg)>>
    /\ UNCHANGED <<store, pc, job_view, attempts, idx, attempt_view, locals,
                   success, exc, resolver_calls, browser, limiter, http_error,
                   completed_logged, arg>>

SpecDecision == InitDecision /\ [][AnalyzePage]_vars

\* ------------------------------------ JobExecutor._agentql_query_to_string
\* A string is the sequence of its characters.  The names the model may give:
\* empty, blank, plain, and with a blank before or after.
Names == {<<>>, <<" ">>, <<"a">>, <<"b">>, <<" ", "a">>, <<"b", " ">>}

\* the value of llm_response.get("agentql_query"): None, a string, a dict
\* (its keys, in order), a list (its items, in order), or a number
SeqsOf(S, n) == UNION {[1..k -> S] : k \in 0..n}

Distinct(xs) == \A i, j \in 1..Len(xs) : xs[i] = xs[j] => i = j

QueryValues ==
    [type : {"None", "number"}, value : {<<>>}]
        \cup [type : {"str"},
              value : Names \cup {<<"{", " ", "a", ",", " ", "b", " ", "}">>}]
        \cup [type : {"dict"}, value : {xs \in SeqsOf(Names, MaxItems) : Distinct(xs)}]
        \cup [type : {"list"}, value : SeqsOf(Names, MaxItems)]

\* str.strip
RECURSIVE lstrip(_)
lstrip(s) == IF s # <<>> /\ Head(s) = " " THEN lstrip(Tail(s)) ELSE s

RECURSIVE rstrip(_)
rstrip(s) ==
    IF s # <<>> /\ s[Len(s)] = " " THEN rstrip(SubSeq(s, 1, Len(s) - 1)) ELSE s

strip(s) == rstrip(lstrip(s))

\* sep.join(xs)
RECURSIVE join(_, _)
join(sep, xs) ==
    IF xs = <<>> THEN <<>>
    ELSE IF Len(xs) = 1 THEN xs[1]
    ELSE xs[1] \o sep \o join(sep, Tail(xs))

\* the truth value of a string
Truthy(s) == s # <<>>

StripsTruthy(s) == Truthy(strip(s))

\* "{ " + ", ".join(keys) + " }" if keys else ""
Braces(keys) ==
    IF keys # <<>>
    THEN <<"{", " ">> \o join(<<",", " ">>, keys) \o <<" ", "}">>
    ELSE <<>>

\* agentql_query_to_string with the blank names kept
agentql_query_to_string_KeepsBlank(value) ==
    CASE value.type = "None" -> <<>>
      [] value.type = "str" -> value.value
      [] value.type = "dict" -> Braces(value.value)
      [] value.type = "list" ->
            Braces([i \in 1..Len(value.value) |-> strip(value.value[i])])
      [] OTHER -> <<>>

\* lines 27-45
agentql_query_to_string(value) ==
    CASE value.type = "None" -> <<>>
      [] value.type = "str" -> value.value
      [] value.type = "dict" -> Braces(SelectSeq(value.value, StripsTruthy))
      [] value.type = "list" ->
            Braces(SelectSeq([i \in 1..Len(value.value) |-> strip(value.value[i])],
                             Truthy))
      [] OTHER -> <<>>

\* SpecQuery: _agentql_query_to_string applied to every value
InitQuery ==
    /\ InitStore(1)
    /\ arg \in QueryValues
    /\ result = <<>>

QueryToString ==
    /\ result = <<>>
    /\ result' = <<agentql_query_to_string(arg)>>
    /\ UNCHANGED <<store, pc, job_view, attempts, idx, attempt_view, locals,
                   success, exc, resolver_calls, browser, limiter, http_error,
                   completed_logged, arg>>

SpecQuery == InitQuery /\ [][QueryToString]_vars

\* SpecScenario: one run of the job and no operator command
NextScenario ==
    \/ execute_job_endpoint(1)
    \/ RunStep(1)
    \/ Observe(1, ContinueAtMost(MaxContinue), Exceptions)

SpecScenario == InitSerial /\ [][NextScenario]_vars

\* SpecAttempt: one run of a job with one directory, no operator command
NextAttempt ==
    \/ execute_job_endpoint(1)
    \/ RunStep(1)
    \/ Observe(1, ActedDecisions(1), Exceptions)

SpecAttempt == InitAttempt /\ [][NextAttempt]_vars

\* --------------------------------------------- JobExecutor._normalize_actions
\* An item of a list: a dict (an action), or a value that is not a dict.
Items == [kind : {"dict"}, id : {"a", "b"}]
            \cup [kind : {"str", "number", "list"}, id : {"x"}]

\* the value of llm_response.get("actions"): None, a number, a dict, a list,
\* or a string; json is what json.loads makes of the string ("invalid" when
\* it raises) and value the dict, or the items of the list, it then gives
RawActions(type, json, value) == [type |-> type, json |-> json, value |-> value]

Dicts == {<<i>> : i \in {i \in Items : i.kind = "dict"}}

ActionValues ==
    {RawActions(t, "-", <<>>) : t \in {"None", "number"}}
        \cup {RawActions("dict", "-", d) : d \in Dicts}
        \cup {RawActions("list", "-", xs) : xs \in SeqsOf(Items, MaxItems)}
        \cup {RawActions("str", j, <<>>) : j \in {"invalid", "str", "number", "null"}}
        \cup {RawActions("str", "dict", d) : d \in Dicts}
        \cup {RawActions("str", "list", xs) : xs \in SeqsOf(Items, MaxItems)}

\* isinstance(a, dict) holding of a list as well
IsDict_OrList(i) == i.kind \in {"dict", "list"}

\* line 62: isinstance(a, dict)
IsDict(i) == i.kind = "dict"

\* normalize_actions reading a list from its second item on
normalize_actions_DropsFirst(value) ==
    LET loaded == IF value.type = "str" THEN value.json ELSE value.type
    IN  CASE loaded = "dict" -> value.value
          [] loaded = "list" ->
                IF value.value = <<>> THEN <<>>
                ELSE SelectSeq(Tail(value.value), IsDict)
          [] OTHER -> <<>>

\* lines 47-62: the list of dicts (a string is parsed once, line 55)
normalize_actions(value) ==
    LET loaded == IF value.type = "str" THEN value.json ELSE value.type
    IN  CASE loaded = "dict" -> value.value
          [] loaded = "list" -> SelectSeq(value.value, IsDict)
          [] OTHER -> <<>>

\* SpecNormalize: lines 230-231 applied to every decision payload
InitNormalize ==
    /\ InitStore(1)
    /\ arg \in [agentql_query : QueryValues, actions : ActionValues]
    /\ result = <<>>

NormalizeDecision ==
    /\ result = <<>>
    /\ result' = <<[agentql_query |-> agentql_query_to_string(arg.agentql_query),
                    actions |-> normalize_actions(arg.actions)]>>
    /\ UNCHANGED <<store, pc, job_view, attempts, idx, attempt_view, locals,
                   success, exc, resolver_calls, browser, limiter, http_error,
                   completed_logged, arg>>

SpecNormalize == InitNormalize /\ [][NormalizeDecision]_vars

\* ------------------------------------------- BrowserService.execute_actions
\* A path of an upload action: relative or absolute, naming a file that
\* exists or not.  Line 241 makes a relative path absolute.
Paths == [absolute : BOOLEAN, exists : BOOLEAN]

resolve(p) == [p EXCEPT !.absolute = TRUE]

\* An action of a batch, with what the page does when it is applied: target
\* is whether the response has the element ("unnamed": the action has no
\* target_element_name), env what the element's method does ("forced": the
\* click of line 218 raises and the forced click of line 221 succeeds), and
\* value the paths that lines 225-235 read from an upload action's value.
Action(type, target, env, value) ==
    [type |-> type, target |-> target, env |-> env, value |-> value]

\* the paths of an upload action's value: none, one (a string, or a dict
\* with "path"), or two (a list, or a dict with "paths")
UploadValues == SeqsOf(Paths, 2)

Actions ==
    {Action(t, "absent", "ok", <<>>) :
        t \in {"fill", "click", "press", "upload", "other"}}
        \cup {Action("fill", "unnamed", "ok", <<>>)}
        \cup {Action(t, "found", e, <<>>) :
                 t \in {"fill", "press"}, e \in {"ok", "raises"}}
        \cup {Action("click", "found", e, <<>>) : e \in {"ok", "forced", "raises"}}
        \cup {Action("other", "found", "ok", <<>>)}
        \cup {Action("upload", "found", "ok", ps) : ps \in UploadValues}
        \cup {Action("upload", "found", "raises", ps) :
                 ps \in {v \in UploadValues :
                            v # <<>> /\ \A i \in 1..Len(v) : v[i].exists}}

\* what page.query_elements does: it gives a response, gives None or raises
Responses == {"response", "None", "raises"}

Exists(p) == p.exists

\* Effects without the test of lines 209-211: a fill, click or press goes
\* ahead although the response lacks the target
Effects_IgnoresTarget(action) ==
    CASE action.env = "raises" -> <<>>
      [] action.type = "fill" -> <<[op |-> "fill", files |-> <<>>]>>
      [] action.type = "click" -> <<[op |-> "click", files |-> <<>>]>>
      [] action.type = "press" -> <<[op |-> "press", files |-> <<>>]>>
      [] OTHER -> <<>>

\* the page operations that lines 213-252 complete for one action that the
\* loop reaches
Effects(action) ==
    CASE action.target # "found" -> <<>>
      [] action.env = "raises" -> <<>>
      [] action.type = "fill" -> <<[op |-> "fill", files |-> <<>>]>>
      [] action.type = "click" /\ action.env = "ok" ->
            <<[op |-> "click", files |-> <<>>]>>
      [] action.type = "click" /\ action.env = "forced" ->
            <<[op |-> "force_click", files |-> <<>>]>>
      [] action.type = "press" -> <<[op |-> "press", files |-> <<>>]>>
      [] action.type = "upload" ->
            IF action.value # <<>> /\ \A i \in 1..Len(action.value) : Exists(action.value[i])
            THEN <<[op |-> "set_input_files",
                    files |-> [i \in 1..Len(action.value) |-> resolve(action.value[i])]]>>
            ELSE <<>>
      [] OTHER -> <<>>

\* Returns with False at lines 244 and 249 left out: the loop goes on
Returns_UploadSoft(action) ==
    \/ action.target = "unnamed"
    \/ action.target = "found" /\ action.env = "raises"

\* the action ends execute_actions with False: getattr raises on a name that
\* is None, a method of the element or the keyboard raises (line 262), an
\* upload path does not exist (line 244), or there is no path (line 249)
Returns(action) ==
    \/ action.target = "unnamed"
    \/ action.target = "found" /\ action.env = "raises"
    \/ /\ action.target = "found" /\ action.type = "upload"
       /\ \/ action.value = <<>>
          \/ \E i \in 1..Len(action.value) : ~Exists(action.value[i])

\* the for statement of line 199 from action i on: the operations completed,
\* tagged with the action's index, the actions reached, and the value returned
RECURSIVE ApplyFrom(_, _)
ApplyFrom(actions, i) ==
    IF i > Len(actions)
    THEN [returned |-> TRUE, effects |-> <<>>, reached |-> {}]
    ELSE LET done == [k \in 1..Len(Effects(actions[i])) |->
                         [index |-> i, op |-> Effects(actions[i])[k].op,
                          files |-> Effects(actions[i])[k].files]]
         IN  IF Returns(actions[i])
             THEN [returned |-> FALSE, effects |-> done, reached |-> {i}]
             ELSE LET rest == ApplyFrom(actions, i + 1)
                  IN  [returned |-> rest.returned,
                       effects |-> done \o rest.effects,
                       reached |-> {i} \cup rest.reached]

\* lines 171-264: no actions, True; no response, False; else the loop
execute_actions(response, actions) ==
    IF actions = <<>>
    THEN [returned |-> TRUE, effects |-> <<>>, reached |-> {}]
    ELSE IF response # "response"
    THEN [returned |-> FALSE, effects |-> <<>>, reached |-> {}]
    ELSE ApplyFrom(actions, 1)

\* SpecActions: execute_actions applied to every batch, over a page that
\* answers the resolver call in every way
InitActions ==
    /\ InitStore(1)
    /\ arg \in [response : Responses, actions : SeqsOf(Actions, MaxBatch)]
    /\ result = <<>>

ExecuteActions ==
    /\ result = <<>>
    /\ result' = <<execute_actions(arg.response, arg.actions)>>
    /\ IF arg.actions # <<>>
       THEN query_elements(1)
       ELSE UNCHANGED <<resolver_calls, limiter>>
    /\ UNCHANGED <<store, pc, job_view, attempts, idx, attempt_view, locals,
                   success, exc, browser, http_error, completed_logged, arg>>

SpecActions == InitActions /\ [][ExecuteActions]_vars

\* -------------------------------------------------------------- create_job
\* the store before any job is created: no submission_jobs row, no attempt
NoJob ==
    [status |-> None, total_directories |-> 0, completed_count |-> 0,
     failed_count |-> 0, started_at |-> FALSE, completed_at |-> FALSE]

\* the ids a request may name; the directories table holds some of them
DirectoryIds == 0..MaxRequest

\* JobCreate: the product named exists or not, and directory_ids has at
\* least one id (min_length=1); directories is the directories table
Requests ==
    [product : BOOLEAN, directories : SUBSET DirectoryIds,
     directory_ids : SeqsOf(DirectoryIds, MaxRequest) \ {<<>>}]

Range(xs) == {xs[i] : i \in 1..Len(xs)}

\* line 29: the rows whose id is in directory_ids, each row once
Found(request) == Range(request.directory_ids) \cap request.directories

\* a set as a sequence, each member once (the order in which the query of
\* line 29 gives its rows)
RECURSIVE Rows(_)
Rows(S) ==
    IF S = {} THEN <<>>
    ELSE LET d == CHOOSE x \in S : \A y \in S : x <= y
         IN  <<d>> \o Rows(S \ {d})

\* create_job without the test of line 30: attempts for the rows found
create_job_NoDirectoryCheck(request) ==
    IF ~request.product
    THEN [status_code |-> 404, job |-> NoJob, attempts |-> <<>>]
    ELSE [status_code |-> 200,
          job |-> NewJob(Len(request.directory_ids)),
          attempts |-> [a \in 1..Cardinality(Found(request)) |->
                           NewAttempt(Rows(Found(request))[a])]]

\* lines 20-53: the response and what the commit of line 51 writes
create_job(request) ==
    IF ~request.product
    THEN [status_code |-> 404, job |-> NoJob, attempts |-> <<>>]
    ELSE IF Cardinality(Found(request)) # Len(request.directory_ids)
    THEN [status_code |-> 404, job |-> NoJob, attempts |-> <<>>]
    ELSE [status_code |-> 200,
          job |-> NewJob(Len(request.directory_ids)),
          attempts |-> [a \in 1..Cardinality(Found(request)) |->
                           NewAttempt(Rows(Found(request))[a])]]

\* SpecCreate: create_job applied to every request, over an empty store
InitCreate ==
    /\ job = NoJob
    /\ attempt = <<>>
    /\ action_logs = <<>>
    /\ InitRuns
    /\ arg \in Requests
    /\ result = <<>>

CreateJob ==
    /\ result = <<>>
    /\ result' = <<create_job(arg).status_code>>
    /\ IF create_job(arg).status_code = 200
       THEN /\ job' = create_job(arg).job
            /\ attempt' = create_job(arg).attempts
            /\ action_logs' = [a \in DOMAIN create_job(arg).attempts |-> <<>>]
       ELSE UNCHANGED store
    /\ UNCHANGED <<pc, job_view, attempts, idx, attempt_view, locals, success, exc,
                   resolver_calls, browser, limiter, http_error, completed_logged,
                   arg>>

SpecCreate == InitCreate /\ [][CreateJob]_vars

\* SpecShared: the browsers of runs that are active at the same time in the
\* process (one thread per execute trigger), each calling the resolver, with
\* time passing between the calls; MaxCalls bounds the calls of all of them
TotalCalls == resolver_calls[1] + resolver_calls[2]

SharedCall(r) ==
    /\ TotalCalls < MaxCalls
    /\ query_elements(r)
    /\ UNCHANGED <<store, pc, job_view, attempts, idx, attempt_view, locals,
                   success, exc, browser, harness>>

NextShared ==
    \/ \E d \in TickSteps : Tick(d)
    \/ \E r \in Runs : SharedCall(r)

SpecShared == InitAttempt /\ [][NextShared]_vars

\* ------------------------------------------------------ BrowserService.stop
\* SpecSession: one BrowserService from its construction (lines 37-39: no
\* driver, no context, no page), started at most once and stopped any number
\* of times; arg is what the session holds and result the calls made on it.
\* close and driver are what self._browser.close() and
\* self._playwright.stop() do in a call of stop: "ok", "raises", or "-" when
\* stop does not make the call.
\* lines 111-120: an exception of close() or of stop() leaves stop at once
stop(session, close, driver) ==
    IF "context" \in session /\ close = "raises"
    THEN [session |-> session, raised |-> TRUE]
    ELSE IF "playwright" \in session /\ driver = "raises"
         THEN [session |-> session \ {"context"}, raised |-> TRUE]
         ELSE [session |-> Stopped, raised |-> FALSE]

SessionCall(op, before, close, driver, raised, after) ==
    [op |-> op, before |-> before, close |-> close, driver |-> driver,
     raised |-> raised, after |-> after]

InitSession ==
    /\ InitStore(1)
    /\ arg = {}
    /\ result = <<>>

SessionUnchanged ==
    UNCHANGED <<store, pc, job_view, attempts, idx, attempt_view, locals,
                success, exc, resolver_calls, browser, limiter, http_error,
                completed_logged>>

\* lines 41-109, called once, on the new session (job_executor.py line 117)
StartSession ==
    /\ Len(result) < MaxSessionCalls
    /\ \A i \in 1..Len(result) : result[i].op # "start"
    /\ \E after \in {Started} \cup StartFailures :
          /\ arg' = after
          /\ result' = Append(result, SessionCall("start", arg, "-", "-",
                                                  after # Started, after))
    /\ SessionUnchanged

StopSession ==
    /\ Len(result) < MaxSessionCalls
    /\ \E close \in IF "context" \in arg THEN {"ok", "raises"} ELSE {"-"} :
       \E driver \in IF "playwright" \in arg /\ close # "raises"
                     THEN {"ok", "raises"} ELSE {"-"} :
          LET out == stop(arg, close, driver)
          IN  /\ arg' = out.session
              /\ result' = Append(result, SessionCall("stop", arg, close, driver,
                                                      out.raised, out.session))
    /\ SessionUnchanged

NextSession == StartSession \/ StopSession

SpecSession == InitSession /\ [][NextSession]_vars

\* ------------------------------------------- delete_directory, delete_job
\* SpecDelete: the tables directories, submission_jobs, submission_attempts
\* and agent_action_logs under create_job, the rows a run adds, and the two
\* deletions.  A job is its id; an attempt its job_id and directory_id; a
\* row of agent_action_logs its attempt and step_number.  The schema
\* (Base.metadata.create_all) makes job_id, directory_id and attempt_id
\* NOT NULL foreign keys, which the database enforces at every commit.
Tables(ds, js, as, ls, next) ==
    [directories |-> ds, jobs |-> js, attempts |-> as, logs |-> ls,
     next_job |-> next]

AttemptRow(j, d) == [job_id |-> j, directory_id |-> d]

LogRow(a, n) == [attempt_id |-> a, step_number |-> n]

\* the directories table of SpecDelete at the start
StoredDirectories == {1, 2}

\* the response of a request, and the tables after it
Response(status_code, db) ==
    [status_code |-> status_code, db |-> db,
     deleted_attempts |-> 0, deleted_action_logs |-> 0]

\* lines 91-95 of directories.py
Deletions(db, attempt_ids, logs) ==
    [status_code |-> 200, db |-> db,
     deleted_attempts |-> Cardinality(attempt_ids),
     deleted_action_logs |->
        Cardinality({l \in logs : l.attempt_id \in attempt_ids})]

\* jobs.py lines 20-53 over the tables: a job and one attempt for each of
\* the directories named, when all of them exist
create_job_rows(db, ids) ==
    IF ids \subseteq db.directories
    THEN Response(200, Tables(db.directories, db.jobs \cup {db.next_job},
                              db.attempts \cup {AttemptRow(db.next_job, d) : d \in ids},
                              db.logs, db.next_job + 1))
    ELSE Response(404, db)

\* job_executor.py lines 236-246: the row of a step added and committed by a
\* run that holds the attempt a; the commit fails when the attempt is gone
add_action_log(db, a, n) ==
    IF a \in db.attempts
    THEN Response(200, Tables(db.directories, db.jobs, db.attempts,
                              db.logs \cup {LogRow(a, n)}, db.next_job))
    ELSE Response(500, db)

\* delete_directory leaving the rows of agent_action_logs
delete_directory_KeepsLogs(db, d) ==
    IF d \notin db.directories THEN Response(404, db)
    ELSE LET attempt_ids == {a \in db.attempts : a.directory_id = d}
         IN  Deletions(Tables(db.directories \ {d}, db.jobs,
                                  db.attempts \ attempt_ids,
                                  db.logs, db.next_job), attempt_ids, db.logs)

\* directories.py lines 57-95: the rows of the directory's attempts, the
\* attempts, then the directory, in one commit
delete_directory(db, d) ==
    IF d \notin db.directories THEN Response(404, db)
    ELSE LET attempt_ids == {a \in db.attempts : a.directory_id = d}
         IN  Deletions(Tables(db.directories \ {d}, db.jobs,
                                  db.attempts \ attempt_ids,
                                  {l \in db.logs : l.attempt_id \notin attempt_ids},
                                  db.next_job), attempt_ids, db.logs)

\* jobs.py lines 177-186: db.delete(job) with SubmissionJob.attempts a
\* relationship without delete cascade (submission_job.py line 31): the
\* session sets job_id of the job's attempts to NULL before it deletes the
\* job, which the NOT NULL column refuses; the commit raises and nothing is
\* deleted.  A job without attempts is deleted.
delete_job(db, j) ==
    IF j \notin db.jobs THEN Response(404, db)
    ELSE IF \E a \in db.attempts : a.job_id = j THEN Response(500, db)
    ELSE Response(200, Tables(db.directories, db.jobs \ {j}, db.attempts,
                              db.logs, db.next_job))

JobIds == 1..MaxJobs

InitDelete ==
    /\ InitStore(1)
    /\ arg = Tables(StoredDirectories, {}, {}, {}, 1)
    /\ result = <<>>

DeleteUnchanged ==
    UNCHANGED <<store, pc, job_view, attempts, idx, attempt_view, locals,
                success, exc, resolver_calls, browser, limiter, http_error,
                completed_logged>>

Request(op, id, response) ==
    /\ arg' = response.db
    /\ result' = <<[op |-> op, id |-> id, status_code |-> response.status_code,
                    deleted_attempts |-> response.deleted_attempts,
                    deleted_action_logs |-> response.deleted_action_logs]>>
    /\ DeleteUnchanged

CreateJobRows ==
    /\ arg.next_job \in JobIds
    /\ \E ids \in (SUBSET StoredDirectories) \ {{}} :
          Request("create_job", ids, create_job_rows(arg, ids))

AddActionLog ==
    \E j \in JobIds, d \in StoredDirectories, n \in 1..MaxLogs :
        /\ j < arg.next_job
        /\ Request("add_action_log", AttemptRow(j, d),
                   add_action_log(arg, AttemptRow(j, d), n))

DeleteDirectory ==
    \E d \in StoredDirectories :
        Request("delete_directory", d, delete_directory(arg, d))

DeleteJob ==
    \E j \in JobIds : Request("delete_job", j, delete_job(arg, j))

NextDelete == CreateJobRows \/ AddActionLog \/ DeleteDirectory \/ DeleteJob

SpecDelete == InitDelete /\ [][NextDelete]_vars

\* ------------------------------------------- a directory deleted during a run
\* SpecMissing: one run, no operator command, and DELETE /directories/{id}
\* arriving after the run has fetched its attempts and before it dispatches
\* the first of them.  arg is the set of directories deleted; the attempt of
\* a deleted directory and its rows are deleted with it (directories.py
\* lines 76-88), so attempt a exists when its directory_id is not in arg.
InitMissing ==
    /\ InitStore(NumAttempts)
    /\ arg = {}
    /\ result = <<>>

\* directories.py lines 57-95, for the directory of the attempt that the run
\* is about to dispatch first (the attempt object still holds what line 128
\* of job_executor.py loaded, so the run reads directory_id without going to
\* the store)
DeleteDirectoryOfFirst(r) ==
    /\ pc[r] \in {"check", "attempt"}
    /\ idx[r] = 1
    /\ attempts[r] # <<>>
    /\ attempt[CurrentAttempt(r)].directory_id \notin arg
    /\ arg' = arg \cup {attempt[CurrentAttempt(r)].directory_id}
    /\ action_logs' = [action_logs EXCEPT ![CurrentAttempt(r)] = <<>>]
    /\ UNCHANGED <<job, attempt, pc, job_view, attempts, idx, attempt_view, locals,
                   success, exc, resolver_calls, browser, limiter, http_error,
                   completed_logged, result>>

\* job_executor.py lines 187-190: no directory row, _execute_attempt returns
\* False with the attempt untouched
DirectoryNotFound(r) ==
    /\ pc[r] = "attempt"
    /\ attempt[CurrentAttempt(r)].directory_id \in arg
    /\ success' = [success EXCEPT ![r] = FALSE]
    /\ pc' = [pc EXCEPT ![r] = "count"]
    /\ UNCHANGED <<store, job_view, attempts, idx, attempt_view, locals, exc,
                   resolver_calls, browser, limiter, harness>>

\* lines 187-197: the directory row is there
DirectoryFound(r) ==
    /\ pc[r] = "attempt"
    /\ attempt[CurrentAttempt(r)].directory_id \notin arg
    /\ BeginAttempt(r)

RunStepMissing(r) ==
    \/ LoadJob(r) \/ MarkJobInProgress(r) \/ StartBrowser(r) \/ FetchAttempts(r)
    \/ CheckJob(r) \/ LoadCounts(r) \/ CommitCounts(r) \/ CheckComplete(r)
    \/ MarkJobCompleted(r) \/ JobExcept(r)
    \/ DirectoryFound(r) \/ DirectoryNotFound(r)
    \/ MarkAttemptInProgress(r) \/ Navigate(r)
    \/ Continue(r) \/ ActionError(r) \/ Done(r) \/ Failed(r)
    \/ Unknown(r) \/ LoopExit(r) \/ AttemptExcept(r)

NextMissing ==
    \/ execute_job_endpoint(1)
    \/ RunStepMissing(1)
    \/ Observe(1, ContinueAtMost(ShortContinue), Exceptions)
    \/ DeleteDirectoryOfFirst(1)

SpecMissing == InitMissing /\ [][NextMissing]_vars

\* ------------------------------------------------------------------ claims
Stepped(r) == pc'[r] # pc[r]           \* the step is a step of run r
Concluded(a) == attempt[a].status \in {"SUBMITTED", "FAILED"}
Count(st) == Cardinality({a \in AttemptIds : attempt[a].status = st})
LastLog(a) == action_logs[a][Len(action_logs[a])]

\* C1: completed_count + failed_count never exceeds total_directories, under
\* any interleaving of runs and operator commands.
C1_CountersWithinTotal ==
    job.completed_count + job.failed_count <= job.total_directories

\* C2: every change of an attempt's status is NOT_STARTED -> IN_PROGRESS,
\* IN_PROGRESS -> SUBMITTED or IN_PROGRESS -> FAILED.
AttemptTransitions ==
    {<<"NOT_STARTED", "IN_PROGRESS">>, <<"IN_PROGRESS", "SUBMITTED">>,
     <<"IN_PROGRESS", "FAILED">>}

C2_AttemptTransitions ==
    [][\A a \in AttemptIds :
          attempt'[a].status # attempt[a].status
             => <<attempt[a].status, attempt'[a].status>> \in AttemptTransitions]_vars

\* C3: every change of the job's status is NOT_STARTED -> IN_PROGRESS,
\* IN_PROGRESS -> PAUSED, PAUSED -> IN_PROGRESS, IN_PROGRESS -> COMPLETED or
\* non-terminal -> FAILED; COMPLETED and FAILED are never left.
JobTransitions ==
    {<<"NOT_STARTED", "IN_PROGRESS">>, <<"IN_PROGRESS", "PAUSED">>,
     <<"PAUSED", "IN_PROGRESS">>, <<"IN_PROGRESS", "COMPLETED">>,
     <<"NOT_STARTED", "FAILED">>, <<"IN_PROGRESS", "FAILED">>,
     <<"PAUSED", "FAILED">>}

C3_JobTransitions ==
    [][job'.status # job.status
          => <<job.status, job'.status>> \in JobTransitions]_vars

BrokeOut(r) ==
    /\ pc[r] \in {"final", "complete", "done"}
    /\ exc[r] = None
    /\ idx[r] >= 1 /\ idx[r] <= Len(attempts[r])

C5_Untouched(r) ==
    /\ \A i \in 1..Len(attempts[r]) :
          IF i < idx[r]
          THEN Concluded(attempts[r][i])
          ELSE /\ attempt[attempts[r][i]].status = "NOT_STARTED"
               /\ action_logs[attempts[r][i]] = <<>>
    /\ job.completed_count = Count("SUBMITTED")
    /\ job.failed_count = Count("FAILED")

C5_StopsAtBoundary ==
    [][\A r \in Runs :
          /\ (/\ pc[r] = "check" /\ idx[r] <= Len(attempts[r])
              /\ job.status \in {"PAUSED", "FAILED"}
              /\ Stepped(r))
                => (pc'[r] = "final" /\ UNCHANGED store)
          /\ (BrokeOut(r) /\ pc[r] # "done" /\ Stepped(r))
                => (pc'[r] = "done" /\ UNCHANGED store)
          /\ BrokeOut(r)' => C5_Untouched(r)']_vars

C5_Witness ==
    /\ pc[1] = "done" /\ BrokeOut(1) /\ idx[1] = 2 /\ Len(attempts[1]) = 2
    /\ job.status = "PAUSED"
    /\ Concluded(1)
    /\ attempt[2].status = "NOT_STARTED" /\ action_logs[2] = <<>>
    /\ job.completed_count + job.failed_count = 1

\* C6: the step numbers of an attempt's rows are 1, 2, ..., m in the order
\* the rows were written.
C6_StepNumbersContiguous ==
    \A a \in AttemptIds : \A k \in 1..Len(action_logs[a]) :
        action_logs[a][k].step_number = k

\* C7: an execution of an attempt performs at most 15 steps (at most 15
\* rows) and, when _execute_attempt is left, the attempt is SUBMITTED or FAILED.
Left(r) == pc[r] \in {"count", "commit_count", "job_except"}

C7_BoundedAndConcluded ==
    \A r \in Runs :
        /\ step_number[r] <= max_iterations_per_attempt
        /\ \A a \in AttemptIds : Len(action_logs[a]) <= max_iterations_per_attempt
        /\ Left(r) => Concluded(CurrentAttempt(r))

\* C8: after a 15th step that is not DONE the attempt is marked FAILED with
\* its completion time and an error citing 15 steps, and it returns failure,
\* which increments failed_count; DONE at step 15 makes it SUBMITTED.
C8_StepCeiling ==
    [][\A r \in Runs :
          /\ (/\ pc[r] = "loop" /\ step_number[r] = max_iterations_per_attempt
              /\ Stepped(r))
                => /\ pc'[r] = "count"
                   /\ ~success'[r]
                   /\ attempt'[CurrentAttempt(r)] =
                         [attempt[CurrentAttempt(r)] EXCEPT
                            !.status = "FAILED", !.completed_at = TRUE,
                            !.error_message = FailedAfter(15)]
          /\ (/\ pc[r] = "branch" /\ step_number[r] = max_iterations_per_attempt
              /\ status[r] = "DONE" /\ Stepped(r))
                => /\ attempt'[CurrentAttempt(r)].status = "SUBMITTED"
                   /\ success'[r]
          /\ (pc[r] = "commit_count" /\ ~success[r] /\ Stepped(r))
                => /\ job'.failed_count = job.failed_count + 1
                   /\ job'.completed_count = job.completed_count]_vars

C8_Witness ==
    /\ attempt[1].status = "FAILED"
    /\ attempt[1].completed_at
    /\ attempt[1].error_message = FailedAfter(15)
    /\ Len(action_logs[1]) = 15
    /\ job.failed_count = 1

\* C9: DONE at step k makes the attempt SUBMITTED with its completion time
\* and returns success, which increments completed_count by one; no resolver
\* call or action happens in step k, whatever the decision carries, and no
\* row is written after step k.
C9_DoneTerminates ==
    [][\A r \in Runs :
          /\ (pc[r] = "branch" /\ status[r] = "DONE" /\ Stepped(r))
                => /\ pc'[r] = "count"
                   /\ success'[r]
                   /\ attempt'[CurrentAttempt(r)].status = "SUBMITTED"
                   /\ attempt'[CurrentAttempt(r)].completed_at
                   /\ resolver_calls' = resolver_calls
                   /\ action_logs' = action_logs
                   /\ job' = job
          /\ (pc[r] = "commit_count" /\ success[r] /\ Stepped(r))
                => /\ job'.completed_count = job.completed_count + 1
                   /\ job'.failed_count = job.failed_count
          /\ \A a \in AttemptIds :
                attempt[a].status = "SUBMITTED" => action_logs'[a] = action_logs[a]]_vars

C9_Witness ==
    /\ attempt[1].status = "SUBMITTED"
    /\ attempt[1].completed_at
    /\ Len(action_logs[1]) = 4
    /\ resolver_calls[1] = 0
    /\ job.completed_count = 1

C11_UploadMissingFatal ==
    [][\A r \in Runs :
          (pc[r] = "upload_not_found" /\ Stepped(r))
             => /\ pc'[r] = "count"
                /\ attempt'[CurrentAttempt(r)].status = "FAILED"
                /\ attempt'[CurrentAttempt(r)].error_message # None
                /\ job' = job]_vars

\* C12: a navigation that times out does not abort the attempt's first step:
\* the run goes from browser.navigate into the loop without a write to the
\* store, and no run ends leaving an attempt IN_PROGRESS.
C12_NavigationDegrades ==
    [][\A r \in Runs :
          /\ (pc[r] = "navigate" /\ Stepped(r))
                => (pc'[r] = "loop" /\ UNCHANGED store)
          /\ (Stepped(r) /\ pc'[r] = "done")
                => \A a \in AttemptIds : attempt'[a].status # "IN_PROGRESS"]_vars

\* C13: when browser.start fails the run ends at once: the job is marked
\* FAILED with its completion time, no attempt and no counter is touched.
\* When an exception escapes the dispatch loop the job is marked FAILED with
\* its completion time and the attempts, their rows and the counters stay as
\* they were.
C13_JobFatal ==
    [][\A r \in Runs :
          /\ (pc[r] = "start_browser" /\ Stepped(r) /\ browser'[r] # Started)
                => /\ pc'[r] = "done"
                   /\ job' = [job EXCEPT !.status = "FAILED", !.completed_at = TRUE]
                   /\ attempt' = attempt
                   /\ action_logs' = action_logs
          /\ (pc[r] = "job_except" /\ Stepped(r))
                => /\ pc'[r] = "done"
                   /\ job' = [job EXCEPT !.status = "FAILED", !.completed_at = TRUE]
                   /\ attempt' = attempt
                   /\ action_logs' = action_logs]_vars

C13_Witness ==
    /\ pc[1] = "done"
    /\ browser[1] \in StartFailures \ {Stopped}
    /\ job.status = "FAILED" /\ job.completed_at
    /\ job.completed_count = 0 /\ job.failed_count = 0
    /\ \A a \in AttemptIds : attempt[a] = NewAttempt(a) /\ action_logs[a] = <<>>

\* C14: when a run has ended, by whatever path, nothing that its browser
\* opened (driver process, context, page) is still open.
C14_BrowserClosed ==
    \A r \in Runs : pc[r] = "done" => browser[r] = Stopped

\* C15: a run that has dispatched every attempt it fetched and finds the job
\* IN_PROGRESS with counters that account for total_directories marks it
\* COMPLETED with its completion time; and the job enters COMPLETED at most
\* once: no step makes it COMPLETED after a run has already marked it so.
C15_CompletedOnce ==
    [][/\ \A r \in Runs :
             /\ (/\ pc[r] = "final" /\ idx[r] > Len(attempts[r])
                 /\ job.status = "IN_PROGRESS"
                 /\ job.completed_count + job.failed_count >= job.total_directories
                 /\ Stepped(r))
                   => pc'[r] = "complete"
             /\ (pc[r] = "complete" /\ Stepped(r))
                   => /\ job'.status = "COMPLETED"
                      /\ job'.completed_at
       /\ (job.status # "COMPLETED" /\ job'.status = "COMPLETED")
             => completed_logged = 0]_vars

\* C16: a command changes the job only from a status in which it is
\* accepted: start from NOT_STARTED or PAUSED and resume from PAUSED lead to
\* IN_PROGRESS, pause from IN_PROGRESS to PAUSED, stop from NOT_STARTED,
\* IN_PROGRESS or PAUSED to FAILED, and the execute trigger launches a run
\* only from NOT_STARTED or PAUSED.  A refused command was issued in another
\* status, writes nothing to the job, its attempts or their rows and launches
\* no run.
OperatorStep == job' # job /\ pc' = pc

CommandTransitions ==
    {<<"NOT_STARTED", "IN_PROGRESS">>, <<"PAUSED", "IN_PROGRESS">>,
     <<"IN_PROGRESS", "PAUSED">>,
     <<"NOT_STARTED", "FAILED">>, <<"IN_PROGRESS", "FAILED">>, <<"PAUSED", "FAILED">>}

Refuses(c) ==
    CASE c = "start" -> {"IN_PROGRESS", "COMPLETED", "FAILED"}
      [] c = "execute" -> {"IN_PROGRESS", "COMPLETED", "FAILED"}
      [] c = "pause" -> {"NOT_STARTED", "PAUSED", "COMPLETED", "FAILED"}
      [] c = "resume" -> {"NOT_STARTED", "IN_PROGRESS", "COMPLETED", "FAILED"}
      [] c = "stop" -> {"COMPLETED", "FAILED"}

C16_CommandsGuarded ==
    [][/\ OperatorStep
          => /\ <<job.status, job'.status>> \in CommandTransitions
             /\ job'.completed_count = job.completed_count
             /\ job'.failed_count = job.failed_count
             /\ job'.total_directories = job.total_directories
             /\ UNCHANGED <<attempt, action_logs>>
       /\ \A r \in Runs :
             (pc[r] \in {"idle", "done"} /\ pc'[r] # pc[r])
                => /\ job.status \in {"NOT_STARTED", "PAUSED"}
                   /\ pc'[r] = "load_job"
                   /\ UNCHANGED store
       /\ \A c \in Commands :
             (http_error # c /\ http_error' = c)
                => /\ job.status \in Refuses(c)
                   /\ UNCHANGED <<store, pc>>]_vars

C16_Witness ==
    /\ http_error = "stop"
    /\ job.status = "COMPLETED" /\ job.completed_at
    /\ job.completed_count + job.failed_count = 1
    /\ pc[1] = "done"

\* C17: a run fetches no attempt that is SUBMITTED or FAILED; every attempt
\* that is dispatched is NOT_STARTED, without rows and never started before,
\* so that over a run stopped by a pause and the runs that follow it each
\* attempt is executed at most once; whenever no run is between the end of an
\* attempt and its count, completed_count is the number of SUBMITTED attempts
\* and failed_count the number of FAILED ones; and execution creates no
\* attempt record.
C17_NoReexecution ==
    [][/\ \A r \in Runs :
             /\ (pc[r] = "fetch" /\ Stepped(r))
                   => \A i \in 1..Len(attempts'[r]) : ~Concluded(attempts'[r][i])
             /\ (pc[r] = "mark_attempt" /\ Stepped(r))
                   => /\ attempt[CurrentAttempt(r)] = NewAttempt(CurrentAttempt(r))
                      /\ action_logs[CurrentAttempt(r)] = <<>>
       /\ (\A r \in Runs : pc[r] \notin {"count", "commit_count"})'
             => /\ job'.completed_count = Count("SUBMITTED")'
                /\ job'.failed_count = Count("FAILED")'
       /\ DOMAIN attempt' = DOMAIN attempt
       /\ DOMAIN action_logs' = DOMAIN attempt]_vars

C17_Witness ==
    /\ pc[1] = "done"
    /\ attempts[1] = <<2>>
    /\ Concluded(1) /\ Concluded(2)
    /\ action_logs[1] # <<>>
    /\ job.status = "COMPLETED"
    /\ job.completed_count + job.failed_count = 2

\* C18: of the resolver calls of one browser, any AGENTQL_RATE_LIMIT + 1
\* consecutive ones span at least AGENTQL_RATE_WINDOW seconds, so no window of
\* that length holds more than AGENTQL_RATE_LIMIT calls; a call made when the
\* last AGENTQL_RATE_LIMIT calls are all younger than the window is issued only
\* once the oldest of them is at least AGENTQL_RATE_WINDOW seconds old; and
\* every resolver call is recorded by the wait at the time it is issued.
Spaced(times) ==
    \A i, j \in 1..Len(times) :
        j >= i + AGENTQL_RATE_LIMIT => times[j] - times[i] >= AGENTQL_RATE_WINDOW

C18_RateLimited ==
    [][\A r \in Runs :
          /\ Spaced(query_times'[r])
          /\ (resolver_calls'[r] = resolver_calls[r] + 1)
                => LET n == Len(query_times[r])
                   IN  /\ query_times'[r] = Append(query_times[r], clock')
                       /\ agentql_call_times'[r] # <<>>
                       /\ agentql_call_times'[r][Len(agentql_call_times'[r])] = clock'
                       /\ clock' >= clock
                       /\ (/\ n >= AGENTQL_RATE_LIMIT
                           /\ clock - query_times[r][n - AGENTQL_RATE_LIMIT + 1]
                                 < AGENTQL_RATE_WINDOW)
                             => clock' - query_times[r][n - AGENTQL_RATE_LIMIT + 1]
                                   >= AGENTQL_RATE_WINDOW]_vars

C18_Witness ==
    /\ Len(query_times[1]) = AGENTQL_RATE_LIMIT + 1
    /\ query_times[1][AGENTQL_RATE_LIMIT] = query_times[1][1]
    /\ query_times[1][AGENTQL_RATE_LIMIT + 1] = query_times[1][1] + AGENTQL_RATE_WINDOW + 1

\* C19: for the outcomes the claim lists (the call raises, the text is not
\* JSON, JSON inside a fence, JSON that is not an object, an object lacking
\* fields) analyze_page returns an object from which the loop reads a status
\* that is CONTINUE, DONE or FAILED; when the call fails or the text is not
\* JSON the status is FAILED and the thought is a diagnostic.
C19_WellFormedDecision ==
    (result # <<>> /\ arg.body.status # "OTHER") =>
        /\ result[1].type = "object"
        /\ StatusRead(result[1]) \in {"CONTINUE", "DONE", "FAILED"}
        /\ (arg.kind # "text" \/ arg.body = NotJson)
              => /\ result[1].status = "FAILED"
                 /\ result[1].thought \notin ThoughtFields

\* C20: the normalized query of a string is the string; of a map, "{ k1, k2,
\* ... }" listing in order its keys that are not blank, as written; of a list,
\* "{ n1, n2, ... }" listing in order its items that are not blank, without
\* the blanks around them; and the empty string for an absent query and for
\* a map or list without such a name.
NonBlank(s) == \E i \in 1..Len(s) : s[i] # " "

\* s from its first to its last character that is not a blank
Core(s) ==
    LET at == {i \in 1..Len(s) : s[i] # " "}
    IN  IF at = {} THEN <<>>
        ELSE SubSeq(s, CHOOSE i \in at : \A j \in at : i <= j,
                       CHOOSE i \in at : \A j \in at : i >= j)

\* n1, n2, ... nk separated by a comma and a blank
RECURSIVE Listing(_)
Listing(names) ==
    IF Len(names) = 1 THEN names[1]
    ELSE Listing(SubSeq(names, 1, Len(names) - 1))
            \o <<",", " ">> \o names[Len(names)]

QueryOf(names) ==
    IF names = <<>> THEN <<>>
    ELSE <<"{", " ">> \o Listing(names) \o <<" ", "}">>

C20_QueryNormalized ==
    result # <<>> =>
        result[1] =
            CASE arg.type = "str" -> arg.value
              [] arg.type = "dict" -> QueryOf(SelectSeq(arg.value, NonBlank))
              [] arg.type = "list" ->
                    LET usable == SelectSeq(arg.value, NonBlank)
                    IN  QueryOf([i \in 1..Len(usable) |-> Core(usable[i])])
              [] OTHER -> <<>>

C20_Witness ==
    /\ arg = [type |-> "dict", value |-> <<<<"a">>, <<"b">>>>]
    /\ result = <<<<"{", " ", "a", ",", " ", "b", " ", "}">>>>

\* C21: normalization is idempotent: the normalized query, given as a string,
\* normalizes to itself, and the normalized action list, given as a list,
\* normalizes to itself.
C21_NormalizeIdempotent ==
    result # <<>> =>
        /\ agentql_query_to_string([type |-> "str", value |-> result[1].agentql_query])
              = result[1].agentql_query
        /\ normalize_actions(RawActions("list", "-", result[1].actions))
              = result[1].actions

C21_Witness ==
    /\ arg.agentql_query = [type |-> "list", value |-> << <<" ", "a">>, <<" ">> >>]
    /\ arg.actions.type = "str" /\ arg.actions.json = "list"
    /\ Len(arg.actions.value) = 2
    /\ result = <<[agentql_query |-> <<"{", " ", "a", " ", "}">>,
                   actions |-> <<[kind |-> "dict", id |-> "a"]>>]>>

\* C22: an upload action one of whose paths does not exist makes
\* execute_actions return False at that action: no operation is performed
\* for it or for any action after it, while every operation of the actions
\* before it has been performed.  An upload whose paths all exist attaches
\* the resolved absolute paths, in order, and the loop goes on to the next
\* action.
MissingPath(action) ==
    /\ action.type = "upload" /\ action.target = "found"
    /\ \E i \in 1..Len(action.value) : ~action.value[i].exists

Attaches(action) ==
    /\ action.type = "upload" /\ action.target = "found" /\ action.env = "ok"
    /\ action.value # <<>>
    /\ \A i \in 1..Len(action.value) : action.value[i].exists

Absolute(ps) == [i \in 1..Len(ps) |-> [absolute |-> TRUE, exists |-> ps[i].exists]]

OpsOf(k) == SelectSeq(result[1].effects, LAMBDA e : e.index = k)

C22_UploadMissingAborts ==
    (result # <<>> /\ arg.response = "response") =>
        \A k \in 1..Len(arg.actions) :
            /\ (k \in result[1].reached /\ MissingPath(arg.actions[k]))
                  => /\ result[1].returned = FALSE
                     /\ \A e \in 1..Len(result[1].effects) :
                           result[1].effects[e].index < k
                     /\ \A j \in 1..(k - 1) :
                           Len(OpsOf(j)) = Len(Effects(arg.actions[j]))
                     /\ \A j \in (k + 1)..Len(arg.actions) : j \notin result[1].reached
            /\ (k \in result[1].reached /\ Attaches(arg.actions[k]))
                  => /\ OpsOf(k) = <<[index |-> k, op |-> "set_input_files",
                                      files |-> Absolute(arg.actions[k].value)]>>
                     /\ k < Len(arg.actions) => k + 1 \in result[1].reached

C22_Witness ==
    /\ Len(arg.actions) = 2
    /\ arg.actions[1] = Action("fill", "found", "ok", <<>>)
    /\ arg.actions[2] = Action("upload", "found", "ok",
                               <<[absolute |-> FALSE, exists |-> TRUE],
                                 [absolute |-> FALSE, exists |-> FALSE]>>)
    /\ result = <<[returned |-> FALSE,
                   effects |-> <<[index |-> 1, op |-> "fill", files |-> <<>>]>>,
                   reached |-> {1, 2}]>>

\* C23: a fill that fails, a click whose forced click fails too and a press
\* that fails are soft: the loop goes on to the next action of the batch, and
\* execute_actions returns False only if an upload action of the batch names
\* a file that does not exist.
SoftFailure(action) ==
    /\ action.type \in {"fill", "click", "press"}
    /\ action.target = "found" /\ action.env = "raises"

C23_OnlyUploadHard ==
    (result # <<>> /\ arg.response = "response") =>
        \A k \in 1..Len(arg.actions) :
            (k \in result[1].reached /\ SoftFailure(arg.actions[k]))
                => /\ k < Len(arg.actions) => k + 1 \in result[1].reached
                   /\ result[1].returned = FALSE
                         => \E j \in 1..Len(arg.actions) : MissingPath(arg.actions[j])

\* C24: an action whose target the response does not have, and an action of
\* an unknown kind, perform no operation and do not end the batch: the next
\* action is reached, and when execute_actions returns False some action
\* that is not skipped was reached; a batch of skipped actions returns True
\* after reaching every one of them.
Skipped(action) ==
    \/ action.target = "absent"
    \/ action.target = "found" /\ action.type = "other"

C24_SkipsContinue ==
    (result # <<>> /\ arg.response = "response") =>
        /\ \A k \in 1..Len(arg.actions) :
              (k \in result[1].reached /\ Skipped(arg.actions[k]))
                 => /\ OpsOf(k) = <<>>
                    /\ k < Len(arg.actions) => k + 1 \in result[1].reached
        /\ result[1].returned = FALSE
              => \E k \in result[1].reached : ~Skipped(arg.actions[k])
        /\ (\A k \in 1..Len(arg.actions) : Skipped(arg.actions[k]))
              => /\ result[1].returned = TRUE
                 /\ result[1].reached = 1..Len(arg.actions)
                 /\ result[1].effects = <<>>

C24_Witness ==
    /\ arg.response = "response"
    /\ arg.actions = <<Action("click", "absent", "ok", <<>>),
                       Action("other", "found", "ok", <<>>)>>
    /\ result = <<[returned |-> TRUE, effects |-> <<>>, reached |-> {1, 2}]>>
    /\ resolver_calls[1] = 1

\* C25 as stated: after create_job, either every requested directory exists
\* and the job is there, NOT_STARTED with zero counters and
\* total_directories the number of requested ids, with exactly one
\* NOT_STARTED attempt per requested directory, or a requested directory is
\* missing or repeated and there is neither a job nor an attempt.
AllExist == Range(arg.directory_ids) \subseteq arg.directories

Created ==
    /\ job = NewJob(Len(arg.directory_ids))
    /\ Cardinality(AttemptIds) = Len(arg.directory_ids)
    /\ \A a \in AttemptIds :
          /\ attempt[a] = NewAttempt(attempt[a].directory_id)
          /\ action_logs[a] = <<>>
    /\ \A d \in Range(arg.directory_ids) :
          Cardinality({a \in AttemptIds : attempt[a].directory_id = d}) = 1
    /\ \A a, b \in AttemptIds :
          attempt[a].directory_id = attempt[b].directory_id => a = b

NothingCreated == job = NoJob /\ AttemptIds = {} /\ DOMAIN action_logs = {}

C25_CreateAllOrNothing ==
    result # <<>> =>
        \/ AllExist /\ Created
        \/ (~AllExist \/ ~Distinct(arg.directory_ids)) /\ NothingCreated

\* C25 amended: create_job creates the job and its attempts together or
\* creates nothing.  When the product exists and the requested directories
\* all exist and are named once each, it answers 200 and the job is there
\* as described, with exactly one attempt per requested directory; in every
\* other case (the product is missing too) it answers 404 and there is
\* neither a job nor an attempt.
C25_CreateAtomic ==
    result # <<>> =>
        IF arg.product /\ AllExist /\ Distinct(arg.directory_ids)
        THEN result = <<200>> /\ Created
        ELSE result = <<404>> /\ NothingCreated

C25_Witness ==
    /\ result = <<200>>
    /\ arg.directory_ids = <<2, 0>>
    /\ job = NewJob(2)
    /\ {attempt[a].directory_id : a \in AttemptIds} = {0, 2}
    /\ Cardinality(AttemptIds) = 2

\* C26: the row of step k is in the store before the resolver call and the
\* actions of step k: a resolver call is made only by a run whose current
\* attempt has, as its last row, the row of the step in progress, still as
\* written (success true, no error); every step that reaches its branch,
\* DONE and FAILED included, has its row; and the steps of an execution
\* whose actions were executed never outnumber the rows of the attempt.
InAttempt(r) ==
    pc[r] \in {"loop", "branch", "attempt_except"} \cup (ExecuteResults \ {"ok"})

HasRow(r) ==
    /\ action_logs[CurrentAttempt(r)] # <<>>
    /\ action_log[r] = Len(action_logs[CurrentAttempt(r)])
    /\ LastLog(CurrentAttempt(r)).step_number = step_number[r]

C26_LogBeforeAct ==
    [][\A r \in Runs :
          /\ (pc[r] = "branch" /\ resolver_calls'[r] # resolver_calls[r])
                => /\ HasRow(r)
                   /\ LastLog(CurrentAttempt(r)) = NewActionLog(step_number[r])
          /\ pc'[r] = "branch" => HasRow(r)'
          /\ InAttempt(r)'
                => /\ Len(history'[r]) <= Len(action_logs'[CurrentAttempt(r)'])
                   /\ resolver_calls'[r] <= Len(action_logs'[CurrentAttempt(r)'])]_vars

C26_Witness ==
    /\ pc[1] = "loop"
    /\ resolver_calls[1] = 2
    /\ Len(action_logs[1]) = 2
    /\ Len(history[1]) = 2

\* C27: the rows of an attempt are append-only: no step removes a row or
\* changes the step number of one; a step that adds a row leaves the rows
\* before it as they are; and a row changes, in its success flag and error
\* only, in a step of the run whose current step it is, after the decision
\* of that step was read.  So once the next step has added its row, the rows
\* before it stay as they are.
C27_RowsAppendOnly ==
    [][\A a \in AttemptIds :
          /\ Len(action_logs'[a]) >= Len(action_logs[a])
          /\ \A k \in 1..Len(action_logs[a]) :
                /\ action_logs'[a][k].step_number = action_logs[a][k].step_number
                /\ action_logs'[a][k] # action_logs[a][k]
                      => /\ k = Len(action_logs[a])
                         /\ Len(action_logs'[a]) = Len(action_logs[a])
                         /\ \E r \in Runs :
                               /\ pc[r] \in {"branch"} \cup (ExecuteResults \ {"ok"})
                               /\ CurrentAttempt(r) = a
                               /\ action_log[r] = k
                               /\ step_number[r] = action_logs[a][k].step_number
                               /\ Stepped(r)
          /\ Len(action_logs'[a]) > Len(action_logs[a])
                => \E n \in 1..max_iterations_per_attempt :
                      action_logs'[a] = Append(action_logs[a], NewActionLog(n))]_vars

C27_Witness ==
    /\ pc[1] = "loop"
    /\ action_logs[1] =
          <<[step_number |-> 1, success |-> FALSE, error |-> "Action execution failed"],
            [step_number |-> 2, success |-> TRUE, error |-> None],
            [step_number |-> 3, success |-> FALSE, error |-> "thought"]>>

\* C28: a CONTINUE step whose normalized query or normalized action list is
\* empty does nothing: no resolver call, no slot of the rate limiter, no
\* write to the store (the step's row stays success true without error), no
\* history entry; the step keeps its number, so it counts toward the ceiling,
\* and the loop goes on to its condition with status CONTINUE.
NoOp(r) ==
    /\ pc[r] = "branch" /\ status[r] = "CONTINUE"
    /\ ~(llm_response[r].agentql_query /\ llm_response[r].actions)

C28_EmptyContinueNoOp ==
    [][\A r \in Runs :
          (NoOp(r) /\ Stepped(r))
             => /\ pc'[r] = "loop"
                /\ UNCHANGED <<store, resolver_calls, limiter, history>>
                /\ LastLog(CurrentAttempt(r))' = NewActionLog(step_number[r])
                /\ step_number'[r] = step_number[r]
                /\ status'[r] = "CONTINUE"
                /\ LoopCondition(r)' <=> step_number[r] < max_iterations_per_attempt]_vars

C28_Witness ==
    /\ pc[1] = "done"
    /\ attempt[1].status = "FAILED"
    /\ attempt[1].error_message = FailedAfter(max_iterations_per_attempt)
    /\ Len(action_logs[1]) = max_iterations_per_attempt
    /\ \A k \in 1..Len(action_logs[1]) : action_logs[1][k] = NewActionLog(k)
    /\ resolver_calls[1] = 0
    /\ agentql_call_times[1] = <<>>

\* C29: the history of an execution starts empty; each step of the run
\* leaves it as it is or, at a CONTINUE step whose actions were executed and
\* at no other step, adds at its end one entry for that step with the outcome
\* that execute_actions reported (the one stored on the step's row); the step
\* numbers of its entries increase strictly; and the history given to the
\* model has entries of earlier steps of the same execution only, so the
\* first step of every attempt is given an empty history.
Increasing(h) == \A i, j \in 1..Len(h) : i < j => h[i].step < h[j].step

C29_HistoryAppendOnly ==
    [][\A r \in Runs :
          /\ (pc[r] = "navigate" /\ pc'[r] = "loop") => history'[r] = <<>>
          /\ (InAttempt(r) /\ InAttempt(r)')
                => /\ \/ history'[r] = history[r]
                      \/ /\ Len(history'[r]) = Len(history[r]) + 1
                         /\ SubSeq(history'[r], 1, Len(history[r])) = history[r]
                   /\ Increasing(history'[r])
                   /\ history'[r] # history[r]
                         <=> (pc[r] = "branch" /\ Acted(llm_response[r]) /\ Stepped(r))
                   /\ history'[r] # history[r]
                         => history'[r][Len(history'[r])] =
                               HistoryEntry(step_number[r],
                                  IF action_logs'[CurrentAttempt(r)][action_log[r]].success
                                  THEN "success" ELSE "failed")
          /\ (pc[r] = "loop" /\ pc'[r] = "branch")
                => /\ \A i \in 1..Len(history[r]) :
                         /\ history[r][i].step < step_number'[r]
                         /\ \E k \in 1..Len(action_logs[CurrentAttempt(r)]) :
                               /\ action_logs[CurrentAttempt(r)][k].step_number
                                     = history[r][i].step
                               /\ action_logs[CurrentAttempt(r)][k].success
                                     = (history[r][i].result = "success")
                   /\ step_number'[r] = 1 => history[r] = <<>>]_vars

C29_Witness ==
    /\ idx[1] = 2 /\ pc[1] = "branch" /\ step_number[1] = 1
    /\ history[1] = <<>>
    /\ attempt[1].status = "SUBMITTED"
    /\ action_logs[1] =
          <<[step_number |-> 1, success |-> FALSE, error |-> "Action execution failed"],
            [step_number |-> 2, success |-> TRUE, error |-> None]>>

\* C30: a resolver call that fails is not raised into the loop and does not
\* end the attempt: a CONTINUE step leaves its branch for the while condition
\* or for the write of the error, with no exception in flight; when the
\* resolver call failed the step's row has success false and the history has
\* a new entry for the step with outcome failed; the error is then written on
\* the row and the run is at the while condition with status CONTINUE, the
\* attempt IN_PROGRESS and the job untouched, so that below the ceiling the
\* next step follows.
C30_ResolverFailureSoft ==
    [][\A r \in Runs :
          /\ (pc[r] = "branch" /\ status[r] = "CONTINUE" /\ Stepped(r))
                => /\ pc'[r] \in {"loop"} \cup (ExecuteResults \ {"ok"})
                   /\ exc'[r] = None
          /\ (pc[r] = "branch" /\ pc'[r] = "resolver_error")
                => /\ LastLog(CurrentAttempt(r))' =
                         [step_number |-> step_number[r], success |-> FALSE,
                          error |-> None]
                   /\ history'[r] =
                         Append(history[r], HistoryEntry(step_number[r], "failed"))
                   /\ UNCHANGED <<job, attempt>>
          /\ (pc[r] = "resolver_error" /\ Stepped(r))
                => /\ pc'[r] = "loop"
                   /\ exc'[r] = None
                   /\ LastLog(CurrentAttempt(r))' =
                         [step_number |-> step_number[r], success |-> FALSE,
                          error |-> "Action execution failed"]
                   /\ status'[r] = "CONTINUE"
                   /\ attempt'[CurrentAttempt(r)].status = "IN_PROGRESS"
                   /\ UNCHANGED <<job, attempt, history, step_number>>
                   /\ LoopCondition(r)' <=> step_number[r] < max_iterations_per_attempt]_vars

C30_Witness ==
    /\ pc[1] = "resolver_error" /\ step_number[1] = 2
    /\ history[1] = <<HistoryEntry(1, "failed"), HistoryEntry(2, "failed")>>
    /\ resolver_calls[1] = 2
    /\ attempt[1].status = "IN_PROGRESS"
    /\ action_logs[1] =
          <<[step_number |-> 1, success |-> FALSE, error |-> "Action execution failed"],
            [step_number |-> 2, success |-> FALSE, error |-> None]>>

\* C31: a pause or stop that arrives while a run is executing an attempt
\* does not interrupt it: with the job PAUSED or FAILED, every step of the run
\* from the start of the attempt to the end of the run leaves the job's
\* status alone and follows the attempt's own course, which leaves
\* _execute_attempt with the attempt SUBMITTED or FAILED; the outcome is then
\* added to the counters, the next boundary dispatches nothing, and the run
\* ends without marking the job COMPLETED.
Executing(r) ==
    pc[r] \in {"mark_attempt", "navigate", "loop", "branch", "attempt_except"}
                 \cup (ExecuteResults \ {"ok"})

Signalled == job.status \in {"PAUSED", "FAILED"}

C31_SignalAtBoundary ==
    [][\A r \in Runs :
          /\ (Executing(r) /\ Signalled /\ Stepped(r))
                => /\ Executing(r)' \/ pc'[r] = "count"
                   /\ pc'[r] = "count" => Concluded(CurrentAttempt(r))'
                   /\ job' = job
          /\ (pc[r] = "commit_count" /\ Signalled /\ Stepped(r))
                => /\ job'.status = job.status
                   /\ job'.completed_count + job'.failed_count
                         = job.completed_count + job.failed_count + 1
                   /\ pc'[r] = "check"
          /\ (pc[r] \in {"count", "check", "final"} /\ Signalled /\ Stepped(r))
                => /\ job' = job
                   /\ pc[r] = "check" => pc'[r] = "final"
                   /\ pc[r] = "final" => pc'[r] = "done"
                   /\ UNCHANGED <<attempt, action_logs>>]_vars

\* C32: a run dispatches its attempts one at a time in the order fetched:
\* the list fetched does not change during the run and names no attempt
\* twice, its index moves by one, after the attempt has returned and been
\* counted; when an attempt is dispatched every attempt before it in the
\* list is SUBMITTED or FAILED and every attempt after it is NOT_STARTED, so
\* no two attempts of the run execute at once; and from the first attempt to
\* the last the run holds the one browser it started, which changes only
\* where the run starts it and where the run ends.
Dispatching(r) ==
    Executing(r) \/ pc[r] \in {"check", "attempt", "count", "commit_count"}

C32_OneAtATime ==
    [][\A r \in Runs :
          /\ (pc[r] = "attempt" /\ Stepped(r))
                => /\ idx[r] \in 1..Len(attempts[r])
                   /\ \A i \in 1..(idx[r] - 1) : Concluded(attempts[r][i])
                   /\ \A i \in (idx[r] + 1)..Len(attempts[r]) :
                         attempt[attempts[r][i]].status = "NOT_STARTED"
          /\ idx'[r] # idx[r]
                => \/ pc[r] = "fetch" /\ idx'[r] = 1
                   \/ pc[r] = "commit_count" /\ idx'[r] = idx[r] + 1
                   \/ pc[r] \in {"idle", "done"} /\ idx'[r] = 0
          /\ attempts'[r] # attempts[r] => pc[r] \in {"fetch", "idle", "done"}
          /\ \A i, j \in 1..Len(attempts'[r]) :
                attempts'[r][i] = attempts'[r][j] => i = j
          /\ Dispatching(r)' => browser'[r] = Started
          /\ browser'[r] # browser[r]
                => pc[r] \in {"start_browser", "final", "complete", "job_except"}]_vars

C32_Witness ==
    /\ pc[1] = "branch" /\ idx[1] = 2 /\ attempts[1] = <<1, 2>>
    /\ Concluded(1) /\ action_logs[1] # <<>>
    /\ attempt[2].status = "IN_PROGRESS"
    /\ browser[1] = Started

\* C33: counting the resolver calls of all the browsers of the process, no
\* window of AGENTQL_RATE_WINDOW seconds that starts at a call holds more
\* than AGENTQL_RATE_LIMIT calls.
CallsIn(from, to) ==
    {c \in UNION {{<<r, i>> : i \in 1..Len(query_times[r])} : r \in Runs} :
        query_times[c[1]][c[2]] >= from /\ query_times[c[1]][c[2]] < to}

C33_GlobalRateLimit ==
    \A r \in Runs : \A i \in 1..Len(query_times[r]) :
        Cardinality(CallsIn(query_times[r][i],
                            query_times[r][i] + AGENTQL_RATE_WINDOW))
            <= AGENTQL_RATE_LIMIT

\* C34: a dict is normalized to the list holding it, a list to its dicts in
\* their order, and None or a value of any other type to the empty list; the
\* result holds dicts only.
KeptOf(xs) == SelectSeq(xs, LAMBDA i : i.kind = "dict")

OnlyDicts(xs) == \A i \in 1..Len(xs) : xs[i].kind = "dict"

C34_NormalizeShapes ==
    result # <<>> =>
        LET v == arg.actions
            out == result[1].actions
        IN  /\ v.type = "dict" => out = v.value /\ Len(out) = 1
            /\ v.type = "list" => out = KeptOf(v.value)
            /\ v.type \notin {"dict", "list"} => out = <<>>
            /\ OnlyDicts(out)

\* C34, amended: the same holds of the value that json.loads gives when the
\* actions are a string, and of the actions themselves when they are not; a
\* string that json.loads rejects gives the empty list.
C34_NormalizeParsedShapes ==
    result # <<>> =>
        LET v == arg.actions
            out == result[1].actions
            loaded == IF v.type = "str" THEN v.json ELSE v.type
        IN  /\ loaded = "dict" => out = v.value /\ Len(out) = 1
            /\ loaded = "list" => out = KeptOf(v.value)
            /\ loaded \notin {"dict", "list"} => out = <<>>
            /\ OnlyDicts(out)

C34_Witness ==
    /\ arg.actions = RawActions("str", "list",
                                <<[kind |-> "str", id |-> "x"],
                                  [kind |-> "dict", id |-> "b"]>>)
    /\ result # <<>>
    /\ result[1].actions = <<[kind |-> "dict", id |-> "b"]>>

\* C35: a call of stop in which stopping the driver does not fail raises
\* nothing and leaves the session without page, context and driver, whatever
\* the session held before (never started, start failed, already stopped);
\* in particular a failure of closing the context does not keep the driver
\* from being stopped.
C35_StopSafe ==
    \A i \in 1..Len(result) :
        (result[i].op = "stop" /\ result[i].driver # "raises")
            => /\ ~result[i].raised
               /\ result[i].after = {}
               /\ result[i].close = "raises" => "playwright" \notin result[i].after

\* C36: every attempt references a job and a directory that exist and every
\* row of agent_action_logs an attempt that exists; when delete_directory
\* has deleted a directory no attempt references it, and when delete_job has
\* deleted a job no attempt references it.
Deleted(op) ==
    /\ result # <<>>
    /\ result[1].op = op
    /\ result[1].status_code = 200

Active(r) == pc[r] \notin {"idle", "done"}

C37_OneRunPerJob ==
    /\ \A r, q \in Runs : (Active(r) /\ Active(q)) => r = q
    /\ \A r, q \in Runs :
          (r # q /\ Executing(r) /\ Executing(q)) => idx[r] # idx[q]

\* C38: when the job is COMPLETED every attempt it has is SUBMITTED or
\* FAILED, completed_count is the number of its SUBMITTED attempts and
\* failed_count the number of its FAILED attempts, also when the directory
\* of an attempt was not found at its dispatch.
JobAttempts == {a \in AttemptIds : attempt[a].directory_id \notin arg}

C38_CompletedAccounts ==
    job.status = "COMPLETED" =>
        /\ \A a \in JobAttempts : Concluded(a)
        /\ job.completed_count
              = Cardinality({a \in JobAttempts : attempt[a].status = "SUBMITTED"})
        /\ job.failed_count
              = Cardinality({a \in JobAttempts : attempt[a].status = "FAILED"})

\* C39: when no run of the job is active, no attempt of the job is
\* IN_PROGRESS; a run that ends leaves the attempt it was executing
\* SUBMITTED or FAILED.
NoRunActive == \A r \in Runs : pc[r] \in {"idle", "done"}

C39_NoOrphanInProgress ==
    NoRunActive => \A a \in AttemptIds : attempt[a].status # "IN_PROGRESS"

\* C40: a job that is not terminal, has an attempt still NOT_STARTED and no
\* active run is in a status in which the execute trigger is accepted; in
\* particular after resume or start of a job that a run left PAUSED.
PendingLeft == \E a \in AttemptIds : attempt[a].status = "NOT_STARTED"

C40_StaysExecutable ==
    (/\ NoRunActive
     /\ job.status \notin {"COMPLETED", "FAILED"}
     /\ PendingLeft)
        => job.status \in Accepts("execute")

====
